---- MODULE Spec2Model ----
(***************************************************************************)
(* Model of the infinite-canvas controller (src/src/InfiniteCanvas.js,     *)
(* first class in the file), its renderer side effects                     *)
(* (src/src/canvasRenderer.js), the markdown layout engine                 *)
(* (src/unnamed/part_004) and the multi-model generation service           *)
(* (src/unnamed/part_003).                                                 *)
(*                                                                         *)
(* JavaScript objects are modelled with an explicit object store: `heap`   *)
(* maps an object identity to the node's fields, and every place where the *)
(* program holds a node reference (nodes, selectedNodes, dragTarget, ...)  *)
(* holds the identity.  JSON.parse(JSON.stringify(..)) yields values       *)
(* (history snapshots, the store), and restoring them allocates new        *)
(* objects.  Strings are sequences of one-character strings.               *)
(***************************************************************************)
EXTENDS Integers, Sequences, FiniteSets, TLC

\* ------------------------------------------------------------------------
\* Generic helpers
\* ------------------------------------------------------------------------
Max(a, b) == IF a >= b THEN a ELSE b

Min(a, b) == IF a <= b THEN a ELSE b

Abs(a) == IF a >= 0 THEN a ELSE 0 - a

Range(s) == {s[i] : i \in DOMAIN s}

RECURSIVE SeqFilterIdx(_, _, _)
\* the subsequence of s at the positions in keep, order preserved (Array.filter)
SeqFilterIdx(s, keep, i) ==
    IF i > Len(s) THEN <<>>
    ELSE (IF i \in keep THEN <<s[i]>> ELSE <<>>) \o SeqFilterIdx(s, keep, i + 1)

RECURSIVE Concat(_)
Concat(ss) == IF ss = <<>> THEN <<>> ELSE Head(ss) \o Concat(Tail(ss))

RECURSIVE SumSeq(_)
SumSeq(s) == IF s = <<>> THEN 0 ELSE Head(s) + SumSeq(Tail(s))

\* ------------------------------------------------------------------------
\* Text layout engine (markdownParser.js)
\* ------------------------------------------------------------------------
IsSpaceChar(c) == c \in {" ", "\n", "\t"}

RECURSIVE TrimLeft(_)
TrimLeft(s) == IF s # <<>> /\ IsSpaceChar(Head(s)) THEN TrimLeft(Tail(s)) ELSE s

RECURSIVE TrimRight(_)
TrimRight(s) ==
    IF s # <<>> /\ IsSpaceChar(s[Len(s)]) THEN TrimRight(SubSeq(s, 1, Len(s) - 1)) ELSE s

\* String.prototype.trim
Trim(s) == TrimRight(TrimLeft(s))

RECURSIVE SplitOn(_, _, _)
\* String.prototype.split(sep) for a one-character separator; cur is the piece
\* being accumulated
SplitOn(s, sep, cur) ==
    IF s = <<>> THEN <<cur>>
    ELSE IF Head(s) = sep THEN <<cur>> \o SplitOn(Tail(s), sep, <<>>)
    ELSE SplitOn(Tail(s), sep, Append(cur, Head(s)))

Split(s, sep) == SplitOn(s, sep, <<>>)

StartsWith(s, p) == Len(s) >= Len(p) /\ SubSeq(s, 1, Len(p)) = p

\* String.prototype.slice(n) (0-based start n)
SliceFrom(s, n) == SubSeq(s, n + 1, Len(s))

\* first position >= from holding character c, or 0 when there is none
RECURSIVE FindChar(_, _, _)
FindChar(s, c, from) ==
    IF from > Len(s) THEN 0
    ELSE IF s[from] = c THEN from
    ELSE FindChar(s, c, from + 1)

\* Ranges are records [start, end, content, type] with 0-based start and
\* exclusive end, as match.index and match.index + match[0].length.
Overlaps(ranges, st, en) ==
    \E k \in DOMAIN ranges : st < ranges[k].end /\ en > ranges[k].start

\* the backtick character (a backtick cannot be written inside a string literal)
Backtick == "BQ"

RECURSIVE CodeMatches(_, _)
\* successive matches of the code-span expression (backtick, one or more
\* non-backticks, backtick), scanning from 1-based position from
CodeMatches(s, from) ==
    LET Span(i, j) ==
            IF i = 0 \/ j = 0 THEN <<>>
            ELSE IF j = i + 1 THEN CodeMatches(s, i + 1)
            ELSE <<[start |-> i - 1, end |-> j, content |-> SubSeq(s, i + 1, j - 1),
                    type |-> "code"]>> \o CodeMatches(s, j + 1)
        From(i) == Span(i, IF i = 0 THEN 0 ELSE FindChar(s, Backtick, i + 1))
    IN  From(FindChar(s, Backtick, from))

\* the match of /\*\*([^*]+)\*\*/ that begins exactly at 1-based position i, as
\* the position of the last character of the match, or 0
BoldEndAt(s, i) ==
    IF i + 1 > Len(s) \/ s[i] # "*" \/ s[i + 1] # "*" THEN 0
    ELSE LET Closed(k) ==
                 IF k = 0 \/ k = i + 2 \/ k + 1 > Len(s) \/ s[k + 1] # "*" THEN 0
                 ELSE k + 1
         IN  Closed(FindChar(s, "*", i + 2))

RECURSIVE BoldMatches(_, _)
\* successive matches of the bold expression, before the overlap test
BoldMatches(s, from) ==
    IF from > Len(s) THEN <<>>
    ELSE LET Match(e) ==
                 IF e = 0 THEN BoldMatches(s, from + 1)
                 ELSE <<[start |-> from - 1, end |-> e,
                         content |-> SubSeq(s, from + 2, e - 2), type |-> "bold"]>>
                      \o BoldMatches(s, e + 1)
         IN  Match(BoldEndAt(s, from))

\* the match of /(?<!\*)\*([^*]+)\*(?!\*)/ that begins exactly at position i
ItalicEndAt(s, i) ==
    IF i > Len(s) \/ s[i] # "*" \/ (i > 1 /\ s[i - 1] = "*") THEN 0
    ELSE LET Closed(k) ==
                 IF k = 0 \/ k = i + 1 \/ (k + 1 <= Len(s) /\ s[k + 1] = "*") THEN 0
                 ELSE k
         IN  Closed(FindChar(s, "*", i + 1))

RECURSIVE ItalicMatches(_, _)
ItalicMatches(s, from) ==
    IF from > Len(s) THEN <<>>
    ELSE LET Match(e) ==
                 IF e = 0 THEN ItalicMatches(s, from + 1)
                 ELSE <<[start |-> from - 1, end |-> e,
                         content |-> SubSeq(s, from + 1, e - 1), type |-> "italic"]>>
                      \o ItalicMatches(s, e + 1)
         IN  Match(ItalicEndAt(s, from))

RECURSIVE AddNonOverlapping(_, _)
\* formatRanges.push(m) for each candidate m that overlaps no range pushed so far
AddNonOverlapping(ranges, cands) ==
    IF cands = <<>> THEN ranges
    ELSE LET Push(m) == IF Overlaps(ranges, m.start, m.end) THEN ranges
                         ELSE Append(ranges, m)
         IN  AddNonOverlapping(Push(Head(cands)), Tail(cands))

RECURSIVE SortByStart(_)
\* formatRanges.sort((a, b) => a.start - b.start); the ranges are disjoint, so
\* their starts are distinct
SortByStart(ranges) ==
    IF ranges = <<>> THEN <<>>
    ELSE LET First(k) ==
                 <<ranges[k]>> \o SortByStart(SeqFilterIdx(ranges, DOMAIN ranges \ {k}, 1))
         IN  First(CHOOSE k \in DOMAIN ranges :
                       \A j \in DOMAIN ranges : ranges[k].start <= ranges[j].start)

FormatRanges(s) ==
    SortByStart(AddNonOverlapping(AddNonOverlapping(CodeMatches(s, 1), BoldMatches(s, 1)),
                                  ItalicMatches(s, 1)))

RECURSIVE BuildSegments(_, _, _)
\* segments built from the sorted ranges; currentIndex is 0-based
BuildSegments(s, ranges, currentIndex) ==
    IF ranges = <<>>
    THEN IF currentIndex < Len(s)
         THEN <<[text |-> SliceFrom(s, currentIndex), type |-> "normal"]>>
         ELSE <<>>
    ELSE LET Segment(r) ==
                 (IF currentIndex < r.start
                  THEN <<[text |-> SubSeq(s, currentIndex + 1, r.start), type |-> "normal"]>>
                  ELSE <<>>)
                 \o <<[text |-> r.content, type |-> r.type]>>
                 \o BuildSegments(s, Tail(ranges), r.end)
         IN  Segment(Head(ranges))

processInlineFormatting(s) ==
    LET Result(segments) ==
            IF segments = <<>> THEN <<[text |-> s, type |-> "normal"]>> ELSE segments
    IN  Result(BuildSegments(s, FormatRanges(s), 0))

\* One parsed block.  content is the list of inline segments for list and text
\* blocks and a single normal segment holding the raw content for headers and
\* spacing (there the code keeps a plain string); inline tells the two apart.
Block(type, content, fontSize, inline) ==
    [type |-> type, content |-> content, fontSize |-> fontSize, inline |-> inline]

PlainContent(s) == <<[text |-> s, type |-> "normal"]>>

EmptyTextBlock == Block("text", PlainContent(<<>>), 14, FALSE)

parseLine(line, index, count) ==
    LET Parse(t) ==
            IF t = <<>>
            THEN IF index < count - 1
                 THEN <<Block("spacing", PlainContent(<<>>), 8, FALSE)>>
                 ELSE <<>>
            ELSE IF StartsWith(t, <<"#", "#", "#", " ">>)
                 THEN <<Block("header", PlainContent(SliceFrom(t, 4)), 16, FALSE)>>
            ELSE IF StartsWith(t, <<"#", "#", " ">>)
                 THEN <<Block("header", PlainContent(SliceFrom(t, 3)), 18, FALSE)>>
            ELSE IF StartsWith(t, <<"#", " ">>)
                 THEN <<Block("header", PlainContent(SliceFrom(t, 2)), 20, FALSE)>>
            ELSE IF StartsWith(t, <<"-", " ">>) \/ StartsWith(t, <<"*", " ">>)
                 THEN <<Block("list", processInlineFormatting(SliceFrom(t, 2)), 14, TRUE)>>
            ELSE <<Block("text", processInlineFormatting(t), 14, TRUE)>>
    IN  Parse(Trim(line))

parseMarkdown(text) ==
    IF text = <<>> THEN <<EmptyTextBlock>>
    ELSE LET Result(parsed) == IF parsed = <<>> THEN <<EmptyTextBlock>> ELSE parsed
             ParseLines(lines) ==
                 Result(Concat([i \in 1..Len(lines) |->
                                   parseLine(lines[i], i - 1, Len(lines))]))
         IN  ParseLines(Split(text, "\n"))

\* the font string `${item.fontWeight} ${item.fontStyle} ${item.fontSize}px Arial`
\* of a block: parseMarkdown makes headers bold and every other block normal
ItemFont(item) ==
    [size |-> item.fontSize, face |-> IF item.type = "header" THEN "bold" ELSE "normal"]

\* the font of one inline segment: bold weight, italic style or the monospace
\* family according to the segment's type, at the block's size
getFontForSegment(segment, baseFontSize) == [size |-> baseFontSize, face |-> segment.type]

\* ctx.measureText(s).width under the font ctx.font: the host's text metric,
\* taken as half the font size per character for the regular and the italic
\* face, one pixel more per character for the bold face, and three fifths of
\* the font size per character for the monospace family
measureText(s, font) ==
    Len(s) * (CASE font.face = "bold" -> font.size \div 2 + 1
                [] font.face = "code" -> (3 * font.size) \div 5
                [] OTHER -> font.size \div 2)

RECURSIVE WrapWordsDropping(_, _, _, _, _)
\* a wrap that, on overflow, starts the new line with the overflowing word and
\* forgets the line accumulated so far
WrapWordsDropping(words, currentLine, lines, width, font) ==
    IF words = <<>>
    THEN IF currentLine # <<>> THEN Append(lines, currentLine) ELSE lines
    ELSE LET Place(word, testLine) ==
                 IF measureText(testLine, font) > width /\ currentLine # <<>>
                 THEN WrapWordsDropping(Tail(words), word, lines, width, font)
                 ELSE WrapWordsDropping(Tail(words), testLine, lines, width, font)
         IN  Place(Head(words),
                   currentLine \o (IF currentLine # <<>> THEN <<" ">> ELSE <<>>)
                       \o Head(words))

RECURSIVE WrapWords(_, _, _, _, _)
\* the words.forEach loop of wrapTextForMarkdown and of wrapTextForRendering,
\* measuring under font
WrapWords(words, currentLine, lines, width, font) ==
    IF words = <<>>
    THEN IF currentLine # <<>> THEN Append(lines, currentLine) ELSE lines
    ELSE LET Place(word, testLine) ==
                 IF measureText(testLine, font) > width /\ currentLine # <<>>
                 THEN WrapWords(Tail(words), word, Append(lines, currentLine), width, font)
                 ELSE WrapWords(Tail(words), testLine, lines, width, font)
         IN  Place(Head(words),
                   currentLine \o (IF currentLine # <<>> THEN <<" ">> ELSE <<>>)
                       \o Head(words))

wrapTextForMarkdown(text, maxWidth, item) ==
    IF text = <<>> THEN <<(<<>>)>>
    ELSE LET effectiveMaxWidth == IF item.type = "list" THEN maxWidth - 20 ELSE maxWidth
             Result(lines) == IF lines # <<>> THEN lines ELSE <<(<<>>)>>
         IN  Result(WrapWords(Split(text, " "), <<>>, <<>>, effectiveMaxWidth,
                              ItemFont(item)))

LineHeight(item) ==
    IF item.type = "header" THEN item.fontSize + 8
    ELSE IF item.type = "list" THEN item.fontSize + 6
    ELSE item.fontSize + 4

FullText(item) == Concat([k \in DOMAIN item.content |-> item.content[k].text])

\* the margins object passed by drawNode and finishEditingNode
Margins == [top |-> 20, bottom |-> 12, left |-> 12, right |-> 12]

ItemHeight(item, maxWidth, margins) ==
    IF item.type = "spacing" THEN item.fontSize
    ELSE Len(wrapTextForMarkdown(FullText(item), maxWidth - margins.left - margins.right, item))
             * LineHeight(item)

calculateMarkdownHeight(text, maxWidth, margins) ==
    LET totalHeight(parsed) ==
            margins.top
                + SumSeq([k \in DOMAIN parsed |-> ItemHeight(parsed[k], maxWidth, margins)])
    IN  Max(40, totalHeight(parseMarkdown(text)) + margins.bottom)

\* wrapTextForRendering(ctx, text, maxWidth), measuring under the font that
\* ctx.font holds when it is called
wrapTextForRendering(text, maxWidth, font) ==
    IF text = <<>> THEN <<(<<>>)>>
    ELSE LET Result(lines) == IF lines # <<>> THEN lines ELSE <<(<<>>)>>
         IN  Result(WrapWords(Split(text, " "), <<>>, <<>>, maxWidth, font))

\* The lines the renderer lays one block out in. A block with inline segments
\* (renderInlineFormattedText) is one line when the widths of its segments,
\* each measured under the segment's own font, sum to at most the line width;
\* otherwise its joined text is wrapped while ctx.font is still the font of
\* the last segment measured (the block's font is set after the wrap). A
\* block with string content (renderSimpleText) is wrapped under the block's
\* font.
LayoutLines(item, maxWidth, margins) ==
    LET maxLineWidth ==
            maxWidth - margins.left - margins.right - (IF item.type = "list" THEN 20 ELSE 0)
        segments == item.content
        totalWidth ==
            SumSeq([k \in DOMAIN segments |->
                       measureText(segments[k].text,
                                   getFontForSegment(segments[k], item.fontSize))])
    IN  IF item.inline
        THEN IF totalWidth <= maxLineWidth THEN <<FullText(item)>>
             ELSE wrapTextForRendering(FullText(item), maxLineWidth,
                                       getFontForSegment(segments[Len(segments)],
                                                         item.fontSize))
        ELSE wrapTextForRendering(FullText(item), maxLineWidth, ItemFont(item))

RECURSIVE RenderItems(_, _, _, _, _)
\* the parsed.forEach loop of renderMarkdownToCanvas from currentY on: for each
\* block the lines of its layout and how many of them are drawn. A block
\* whose first line would end below maxY is passed over; within a block a
\* line is drawn while currentY + lineHeight <= maxY.
RenderItems(items, currentY, maxY, maxWidth, margins) ==
    IF items = <<>> THEN <<>>
    ELSE LET Rest(y) == RenderItems(Tail(items), y, maxY, maxWidth, margins)
             Item(item, lineHeight) ==
                 IF item.type = "spacing"
                 THEN <<[laid |-> <<>>, drawn |-> 0]>> \o Rest(currentY + item.fontSize)
                 ELSE IF currentY + lineHeight > maxY
                      THEN <<[laid |-> LayoutLines(item, maxWidth, margins), drawn |-> 0]>>
                               \o Rest(currentY)
                 ELSE LET Drawn(lines, n) ==
                              <<[laid |-> lines, drawn |-> n]>>
                                  \o Rest(currentY + n * lineHeight)
                          Fits(lines) ==
                              Drawn(lines, Min(Len(lines), (maxY - currentY) \div lineHeight))
                      IN  Fits(LayoutLines(item, maxWidth, margins))
         IN  Item(Head(items), LineHeight(Head(items)))

\* renderMarkdownToCanvas with the node's top at y = 0
renderMarkdownToCanvas(text, maxWidth, nodeHeight, margins) ==
    RenderItems(parseMarkdown(text), margins.top, nodeHeight - margins.bottom,
                maxWidth, margins)

\* ------------------------------------------------------------------------
\* Bounds of the exploration
\* ------------------------------------------------------------------------
\* number of input events (pointer, key, button, timer, completion) explored
MaxSteps == 4

\* nodes the toolbar button and the double-click may add
MaxNodes == 2

\* models configured for one generation batch
NumModels == 2

\* ------------------------------------------------------------------------
\* Program constants and host values
\* ------------------------------------------------------------------------
maxHistorySize == 50

\* canvas.width and canvas.height (window size, resizeCanvas)
CanvasWidth == 800

CanvasHeight == 600

\* 'New Node', the default text of createNode
NewNodeText == <<"N", "e", "w", " ", "N", "o", "d", "e">>

\* text a user may type into the edit box
EditTexts == {<<"a">>, <<"#", " ", "a", "\n", "b">>}

\* the response text of a model that succeeds
IdeaText == <<"i", "d", "e", "a">>

\* pointer positions (canvas-relative clientX, clientY) the events are drawn from
Points == {<<500, 325>>, <<800, 325>>, <<100, 100>>}

NullRef == 0

NoTarget == [kind |-> "null", obj |-> NullRef]

\* ------------------------------------------------------------------------
\* State
\* ------------------------------------------------------------------------
VARIABLES
    heap,            \* object identity -> fields of the node object
    nodes,           \* this.nodes: sequence of node objects
    connections,     \* this.connections: sequence of [id, from, to]
    selectedNodes,   \* this.selectedNodes: sequence of node objects
    offsetX, offsetY, scale,
    isDragging, dragStartX, dragStartY, dragTarget,
    isConnecting, connectionStart,
    isResizing, resizeHandle, resizeTarget,
    isSelecting, selectionStart, selectionEnd,
    isPanning, spacePressed,
    editingNode, editInput,
    history, historyIndex,
    apiKey, isGeneratingAI,
    store,           \* localStorage item 'infiniteCanvasMVP'
    gen,             \* the generation batch in flight (closure of generateAI)
    editTimer,       \* node captured by the setTimeout of onDoubleClick, or NullRef
    buttonsDown,     \* mouse buttons currently held by the user
    steps,           \* input events handled so far
    last             \* the event handled last: its name and what it did

vars == <<heap, nodes, connections, selectedNodes, offsetX, offsetY, scale,
          isDragging, dragStartX, dragStartY, dragTarget, isConnecting, connectionStart,
          isResizing, resizeHandle, resizeTarget, isSelecting, selectionStart,
          selectionEnd, isPanning, spacePressed, editingNode, editInput, history,
          historyIndex, apiKey, isGeneratingAI, store, gen, editTimer, buttonsDown,
          steps, last>>

\* the controller object, as one record
this ==
    [heap |-> heap, nodes |-> nodes, connections |-> connections,
     selectedNodes |-> selectedNodes, offsetX |-> offsetX, offsetY |-> offsetY,
     scale |-> scale, isDragging |-> isDragging, dragStartX |-> dragStartX,
     dragStartY |-> dragStartY, dragTarget |-> dragTarget, isConnecting |-> isConnecting,
     connectionStart |-> connectionStart, isResizing |-> isResizing,
     resizeHandle |-> resizeHandle, resizeTarget |-> resizeTarget,
     isSelecting |-> isSelecting, selectionStart |-> selectionStart,
     selectionEnd |-> selectionEnd, isPanning |-> isPanning, spacePressed |-> spacePressed,
     editingNode |-> editingNode, editInput |-> editInput, history |-> history,
     historyIndex |-> historyIndex, apiKey |-> apiKey, isGeneratingAI |-> isGeneratingAI,
     store |-> store, gen |-> gen, editTimer |-> editTimer, buttonsDown |-> buttonsDown,
     last |-> last]

\* the next state is the record r
Becomes(r) ==
    /\ heap' = r.heap /\ nodes' = r.nodes /\ connections' = r.connections
    /\ selectedNodes' = r.selectedNodes /\ offsetX' = r.offsetX /\ offsetY' = r.offsetY
    /\ scale' = r.scale /\ isDragging' = r.isDragging /\ dragStartX' = r.dragStartX
    /\ dragStartY' = r.dragStartY /\ dragTarget' = r.dragTarget
    /\ isConnecting' = r.isConnecting /\ connectionStart' = r.connectionStart
    /\ isResizing' = r.isResizing /\ resizeHandle' = r.resizeHandle
    /\ resizeTarget' = r.resizeTarget /\ isSelecting' = r.isSelecting
    /\ selectionStart' = r.selectionStart /\ selectionEnd' = r.selectionEnd
    /\ isPanning' = r.isPanning /\ spacePressed' = r.spacePressed
    /\ editingNode' = r.editingNode /\ editInput' = r.editInput /\ history' = r.history
    /\ historyIndex' = r.historyIndex /\ apiKey' = r.apiKey
    /\ isGeneratingAI' = r.isGeneratingAI /\ store' = r.store /\ gen' = r.gen
    /\ editTimer' = r.editTimer /\ buttonsDown' = r.buttonsDown
    /\ last' = r.last

\* the state is the record r
Is(r) ==
    /\ heap = r.heap /\ nodes = r.nodes /\ connections = r.connections
    /\ selectedNodes = r.selectedNodes /\ offsetX = r.offsetX /\ offsetY = r.offsetY
    /\ scale = r.scale /\ isDragging = r.isDragging /\ dragStartX = r.dragStartX
    /\ dragStartY = r.dragStartY /\ dragTarget = r.dragTarget
    /\ isConnecting = r.isConnecting /\ connectionStart = r.connectionStart
    /\ isResizing = r.isResizing /\ resizeHandle = r.resizeHandle
    /\ resizeTarget = r.resizeTarget /\ isSelecting = r.isSelecting
    /\ selectionStart = r.selectionStart /\ selectionEnd = r.selectionEnd
    /\ isPanning = r.isPanning /\ spacePressed = r.spacePressed
    /\ editingNode = r.editingNode /\ editInput = r.editInput /\ history = r.history
    /\ historyIndex = r.historyIndex /\ apiKey = r.apiKey
    /\ isGeneratingAI = r.isGeneratingAI /\ store = r.store /\ gen = r.gen
    /\ editTimer = r.editTimer /\ buttonsDown = r.buttonsDown
    /\ last = r.last

\* ------------------------------------------------------------------------
\* Objects, values and identifiers
\* ------------------------------------------------------------------------
\* the node objects of s.nodes as values, in order (JSON.stringify(this.nodes))
NodeValues(s) == [i \in 1..Len(s.nodes) |-> s.heap[s.nodes[i]]]

\* JSON.parse(JSON.stringify({nodes, connections}))
GraphValue(s) == [nodes |-> NodeValues(s), connections |-> s.connections]

GraphIds(g) ==
    {g.nodes[i].id : i \in DOMAIN g.nodes}
        \cup {g.connections[i].id : i \in DOMAIN g.connections}
        \cup {g.connections[i].from : i \in DOMAIN g.connections}
        \cup {g.connections[i].to : i \in DOMAIN g.connections}

\* identifiers held by files that exist before the session
ImportedIds == 1..5

UsedIds(s) ==
    {s.heap[o].id : o \in DOMAIN s.heap}
        \cup GraphIds([nodes |-> <<>>, connections |-> s.connections])
        \cup UNION {GraphIds(s.history[i]) : i \in DOMAIN s.history}
        \cup GraphIds(s.store)
        \cup ImportedIds

\* Date.now() + Math.random(): a number no node or connection has had
FreshId(s) == CHOOSE n \in 1..(Cardinality(UsedIds(s)) + 1) : n \notin UsedIds(s)

\* the identity of a newly allocated object
NewObj(h) == CHOOSE n \in 1..(Cardinality(DOMAIN h) + 1) : n \notin DOMAIN h

RECURSIVE AllocAll(_, _)
\* allocate one object per value of vals, in order: <<heap, sequence of objects>>
AllocAll(h, vals) ==
    IF vals = <<>> THEN <<h, <<>>>>
    ELSE LET Cons(o, rest) == <<rest[1], <<o>> \o rest[2]>>
             Alloc(o) == Cons(o, AllocAll(h @@ (o :> Head(vals)), Tail(vals)))
         IN  Alloc(NewObj(h))

\* objects the program can still reach
Reachable(s) ==
    Range(s.nodes) \cup Range(s.selectedNodes)
        \cup {s.dragTarget.obj, s.connectionStart, s.resizeTarget, s.editingNode,
              s.gen.source, s.editTimer}

\* drop the objects nothing refers to any more
Collect(s) ==
    [s EXCEPT !.heap = [o \in (DOMAIN s.heap) \cap Reachable(s) |-> s.heap[o]]]

IndexOfObj(seq, o) ==
    IF \E i \in DOMAIN seq : seq[i] = o
    THEN CHOOSE i \in DOMAIN seq : seq[i] = o /\ \A j \in 1..(i - 1) : seq[j] # o
    ELSE 0

\* this.nodes.find(n => n.id === id): the first node with that id, or NullRef
FindNodeById(s, id) ==
    IF \E i \in DOMAIN s.nodes : s.heap[s.nodes[i]].id = id
    THEN s.nodes[CHOOSE i \in DOMAIN s.nodes :
                     /\ s.heap[s.nodes[i]].id = id
                     /\ \A j \in 1..(i - 1) : s.heap[s.nodes[j]].id # id]
    ELSE NullRef

\* ------------------------------------------------------------------------
\* Drawing (canvasRenderer.js): drawNode adjusts the height of the node it draws
\* ------------------------------------------------------------------------
drawNode(node) ==
    LET Fit(requiredHeight) ==
            IF ~node.manuallyResized /\ node.height # requiredHeight
            THEN [node EXCEPT !.height = requiredHeight]
            ELSE node
    IN  Fit(Max(40, calculateMarkdownHeight(node.text, node.width, Margins)))

\* this.nodes.forEach(node => drawNode(this.ctx, node)); the pixels are not state
draw(s) ==
    [s EXCEPT !.heap = [o \in DOMAIN s.heap |->
                            IF o \in Range(s.nodes) THEN drawNode(s.heap[o]) ELSE s.heap[o]]]

\* ------------------------------------------------------------------------
\* Persistence
\* ------------------------------------------------------------------------
NoStore ==
    [present |-> FALSE, nodes |-> <<>>, connections |-> <<>>,
     offsetX |-> 0, offsetY |-> 0, scale |-> 0]

saveToLocalStorage(s) ==
    [s EXCEPT !.store = [present |-> TRUE, nodes |-> NodeValues(s),
                         connections |-> s.connections, offsetX |-> s.offsetX,
                         offsetY |-> s.offsetY, scale |-> s.scale]]

loadFromLocalStorage(s) ==
    IF s.store.present
    THEN LET Loaded(a) ==
                 [s EXCEPT !.heap = a[1], !.nodes = a[2],
                           !.connections = s.store.connections,
                           !.offsetX = s.store.offsetX,
                           !.offsetY = s.store.offsetY,
                           !.scale = IF s.store.scale = 0 THEN 1 ELSE s.store.scale]
         IN  Loaded(AllocAll(s.heap, s.store.nodes))
    ELSE s

\* ------------------------------------------------------------------------
\* History
\* ------------------------------------------------------------------------
\* a saveState that never evicts: the history grows past maxHistorySize
saveStateUnbounded(s) ==
    [s EXCEPT !.history = Append(SubSeq(s.history, 1, s.historyIndex + 1), GraphValue(s)),
              !.historyIndex = @ + 1,
              !.last = [@ EXCEPT !.pushes = @ + 1,
                                 !.cut = @ + Len(s.history) - (s.historyIndex + 1)]]

\* a saveState that keeps the snapshots after the current index
saveStateKeepingRedo(s) ==
    [s EXCEPT !.history = Append(s.history, GraphValue(s)),
              !.historyIndex = @ + 1,
              !.last = [@ EXCEPT !.pushes = @ + 1]]

\* last.pushes counts the calls; last.cut counts the snapshots the calls discarded
\* from the end of the history
saveState(s) ==
    LET state == GraphValue(s)
        kept == IF s.historyIndex < Len(s.history) - 1
                THEN SubSeq(s.history, 1, s.historyIndex + 1)
                ELSE s.history
        Called(pushed) ==
            [s.last EXCEPT !.pushes = @ + 1, !.cut = @ + Len(s.history) + 1 - Len(pushed)]
        Limit(pushed) ==
            IF Len(pushed) > maxHistorySize
            THEN [s EXCEPT !.history = Tail(pushed),
                           !.last = Called(pushed)]
            ELSE [s EXCEPT !.history = pushed,
                           !.historyIndex = @ + 1,
                           !.last = Called(pushed)]
    IN  Limit(Append(kept, state))

\* ------------------------------------------------------------------------
\* Selection
\* ------------------------------------------------------------------------
clearSelection(s) ==
    draw([s EXCEPT !.heap = [o \in DOMAIN s.heap |->
                                 IF o \in Range(s.nodes)
                                 THEN [s.heap[o] EXCEPT !.isSelected = FALSE]
                                 ELSE s.heap[o]],
                   !.selectedNodes = <<>>])

\* selectNodes(nodes) for an array of node objects
selectNodes(s, objs) ==
    LET Select(c) ==
            draw([c EXCEPT !.heap = [o \in DOMAIN c.heap |->
                                         IF o \in Range(objs)
                                         THEN [c.heap[o] EXCEPT !.isSelected = TRUE]
                                         ELSE c.heap[o]],
                           !.selectedNodes = objs])
    IN  Select(clearSelection(s))

\* selectNode(node): selectNodes with a single object
selectNode(s, o) == selectNodes(s, <<o>>)

addToSelection(s, o) ==
    IF o # NullRef /\ o \notin Range(s.selectedNodes)
    THEN draw([s EXCEPT !.heap[o].isSelected = TRUE,
                        !.selectedNodes = Append(@, o)])
    ELSE s

removeFromSelection(s, o) ==
    IF o # NullRef
    THEN LET Splice(index) ==
                 draw([s EXCEPT !.heap[o].isSelected = FALSE,
                                !.selectedNodes =
                                    IF index > 0
                                    THEN SeqFilterIdx(@, DOMAIN @ \ {index}, 1)
                                    ELSE @])
         IN  Splice(IndexOfObj(s.selectedNodes, o))
    ELSE s

RECURSIVE AddAllToSelection(_, _)
\* nodesInSelection.forEach(node => this.addToSelection(node))
AddAllToSelection(s, objs) ==
    IF objs = <<>> THEN s
    ELSE AddAllToSelection(addToSelection(s, Head(objs)), Tail(objs))

selectAllNodes(s) == selectNodes(s, s.nodes)

restoreState(s, state) ==
    LET Replaced(a) == [s EXCEPT !.heap = a[1], !.nodes = a[2],
                                 !.connections = state.connections]
    IN  draw(saveToLocalStorage(clearSelection(Replaced(AllocAll(s.heap, state.nodes)))))

\* an undo that redraws from the current snapshot when there is nothing to undo
undoRestoringAtFloor(s) ==
    IF s.historyIndex > 0
    THEN restoreState([s EXCEPT !.historyIndex = @ - 1], s.history[s.historyIndex])
    ELSE restoreState(s, s.history[s.historyIndex + 1])

\* an undo that is refused while a generation batch is outstanding
undoWhenIdle(s) ==
    IF s.historyIndex > 0 /\ ~s.isGeneratingAI
    THEN restoreState([s EXCEPT !.historyIndex = @ - 1], s.history[s.historyIndex])
    ELSE s

undo(s) ==
    IF s.historyIndex > 0
    THEN restoreState([s EXCEPT !.historyIndex = @ - 1], s.history[s.historyIndex])
    ELSE s

redo(s) ==
    IF s.historyIndex < Len(s.history) - 1
    THEN restoreState([s EXCEPT !.historyIndex = @ + 1], s.history[s.historyIndex + 2])
    ELSE s

\* ------------------------------------------------------------------------
\* Nodes and connections
\* ------------------------------------------------------------------------
\* the object createNode will allocate in state s
CreatedNode(s) == NewObj(s.heap)

\* createNode(text, x, y, generatedByModel); x and y are given (the callers
\* that pass null are expanded in CreateNodeDefault)
createNode(s, text, x, y, generatedByModel) ==
    LET Push(saved, o) ==
            LET node == [id |-> FreshId(saved), text |-> text, x |-> x, y |-> y,
                         width |-> 400, height |-> 60, isSelected |-> FALSE,
                         manuallyResized |-> FALSE, generatedByModel |-> generatedByModel]
            IN  [saved EXCEPT !.heap = @ @@ (o :> node), !.nodes = Append(@, o)]
    IN  draw(saveToLocalStorage(Push(saveState(s), NewObj(s.heap))))

\* createNode() from the toolbar: x and y default to the canvas centre minus
\* the offset
CreateNodeDefault(s) ==
    createNode(s, NewNodeText, CanvasWidth \div 2 - s.offsetX,
               CanvasHeight \div 2 - s.offsetY, 0)

\* a createConnection whose existence test looks in one direction only
createConnectionDirected(s, fromObj, toObj) ==
    LET fromId == s.heap[fromObj].id
        toId == s.heap[toObj].id
        existingConnection ==
            \E i \in DOMAIN s.connections :
                s.connections[i].from = fromId /\ s.connections[i].to = toId
        called == [s EXCEPT !.last.conn = <<fromId, toId>>]
        Push(saved) ==
            LET connection == [id |-> FreshId(saved), from |-> fromId, to |-> toId]
            IN  [saved EXCEPT !.connections = Append(@, connection)]
    IN  IF ~existingConnection
        THEN saveToLocalStorage(Push(saveState(called)))
        ELSE called

createConnection(s, fromObj, toObj) ==
    LET fromId == s.heap[fromObj].id
        toId == s.heap[toObj].id
        existingConnection ==
            \E i \in DOMAIN s.connections :
                \/ s.connections[i].from = fromId /\ s.connections[i].to = toId
                \/ s.connections[i].from = toId /\ s.connections[i].to = fromId
        called == [s EXCEPT !.last.conn = <<fromId, toId>>]
        Push(saved) ==
            LET connection == [id |-> FreshId(saved), from |-> fromId, to |-> toId]
            IN  [saved EXCEPT !.connections = Append(@, connection)]
    IN  IF ~existingConnection
        THEN saveToLocalStorage(Push(saveState(called)))
        ELSE called

\* getConnectedNodes is read-only and feeds the request text only

deleteSelectedNodes(s) ==
    IF Len(s.selectedNodes) = 0 THEN s
    ELSE LET Filter(saved) ==
                 LET nodeIdsToDelete ==
                         {saved.heap[o].id : o \in Range(saved.selectedNodes)}
                     keptNodes ==
                         SeqFilterIdx(saved.nodes,
                             {i \in DOMAIN saved.nodes :
                                 saved.heap[saved.nodes[i]].id \notin nodeIdsToDelete}, 1)
                     keptConns ==
                         SeqFilterIdx(saved.connections,
                             {i \in DOMAIN saved.connections :
                                 /\ saved.connections[i].from \notin nodeIdsToDelete
                                 /\ saved.connections[i].to \notin nodeIdsToDelete}, 1)
                 IN  [saved EXCEPT !.nodes = keptNodes, !.connections = keptConns]
         IN  draw(saveToLocalStorage(clearSelection(Filter(saveState(s)))))

\* ------------------------------------------------------------------------
\* Hit testing
\* ------------------------------------------------------------------------
\* (mouse - offset) / scale; the pointer positions and scales explored keep
\* the quotient exact
ToCanvas(mouse, offset, sc) == (mouse - offset) \div sc

Contains(node, x, y) ==
    /\ x >= node.x /\ x <= node.x + node.width
    /\ y >= node.y /\ y <= node.y + node.height

\* a hit-test that scans this.nodes from the front
getNodeAtPointFirst(s, x, y) ==
    LET hits == {i \in DOMAIN s.nodes : Contains(s.heap[s.nodes[i]], x, y)}
    IN  IF hits = {} THEN NullRef
        ELSE s.nodes[CHOOSE i \in hits : \A j \in hits : j >= i]

\* the last node of this.nodes that contains the point, or NullRef
getNodeAtPoint(s, x, y) ==
    LET hits == {i \in DOMAIN s.nodes : Contains(s.heap[s.nodes[i]], x, y)}
    IN  IF hits = {} THEN NullRef
        ELSE s.nodes[CHOOSE i \in hits : \A j \in hits : j <= i]

\* the three handles drawn on a selected node; halves are compared doubled
getResizeHandle(node, x, y) ==
    LET handleSize == 12
        tolerance == 8
    IN  IF /\ Abs(x - (node.x + node.width)) < tolerance
           /\ Abs(2 * y - (2 * node.y + node.height)) < 2 * (handleSize \div 2 + tolerance)
        THEN "right"
        ELSE IF /\ Abs(2 * x - (2 * node.x + node.width)) < 2 * (handleSize \div 2 + tolerance)
                /\ Abs(y - (node.y + node.height)) < tolerance
        THEN "bottom"
        ELSE IF /\ Abs(x - (node.x + node.width)) < tolerance
                /\ Abs(y - (node.y + node.height)) < tolerance
        THEN "bottom-right"
        ELSE "none"

getBorderResizeHandle(node, x, y) ==
    LET borderTolerance == 8
        cornerSize == 20
        nodeLeft == node.x
        nodeRight == node.x + node.width
        nodeTop == node.y
        nodeBottom == node.y + node.height
        nearLeft == Abs(x - nodeLeft) <= borderTolerance
        nearRight == Abs(x - nodeRight) <= borderTolerance
        nearTop == Abs(y - nodeTop) <= borderTolerance
        nearBottom == Abs(y - nodeBottom) <= borderTolerance
        withinHorizontalBounds ==
            x >= nodeLeft - borderTolerance /\ x <= nodeRight + borderTolerance
        withinVerticalBounds ==
            y >= nodeTop - borderTolerance /\ y <= nodeBottom + borderTolerance
    IN  IF /\ nearTop /\ nearLeft
           /\ x >= nodeLeft - borderTolerance /\ x <= nodeLeft + cornerSize
           /\ y >= nodeTop - borderTolerance /\ y <= nodeTop + cornerSize
        THEN "top-left"
        ELSE IF /\ nearTop /\ nearRight
                /\ x >= nodeRight - cornerSize /\ x <= nodeRight + borderTolerance
                /\ y >= nodeTop - borderTolerance /\ y <= nodeTop + cornerSize
        THEN "top-right"
        ELSE IF /\ nearBottom /\ nearLeft
                /\ x >= nodeLeft - borderTolerance /\ x <= nodeLeft + cornerSize
                /\ y >= nodeBottom - cornerSize /\ y <= nodeBottom + borderTolerance
        THEN "bottom-left"
        ELSE IF /\ nearBottom /\ nearRight
                /\ x >= nodeRight - cornerSize /\ x <= nodeRight + borderTolerance
                /\ y >= nodeBottom - cornerSize /\ y <= nodeBottom + borderTolerance
        THEN "bottom-right"
        ELSE IF /\ nearTop /\ withinHorizontalBounds
                /\ x > nodeLeft + cornerSize /\ x < nodeRight - cornerSize
        THEN "top"
        ELSE IF /\ nearBottom /\ withinHorizontalBounds
                /\ x > nodeLeft + cornerSize /\ x < nodeRight - cornerSize
        THEN "bottom"
        ELSE IF /\ nearLeft /\ withinVerticalBounds
                /\ y > nodeTop + cornerSize /\ y < nodeBottom - cornerSize
        THEN "left"
        ELSE IF /\ nearRight /\ withinVerticalBounds
                /\ y > nodeTop + cornerSize /\ y < nodeBottom - cornerSize
        THEN "right"
        ELSE "none"

\* ------------------------------------------------------------------------
\* Pointer handlers
\* ------------------------------------------------------------------------
\* the last statement of onMouseDown (lines 675-690)
MouseDownTail(s, mouseX, mouseY) ==
    IF ~s.isConnecting /\ ~s.isResizing /\ ~s.isSelecting
    THEN [s EXCEPT !.isDragging = TRUE, !.dragStartX = mouseX, !.dragStartY = mouseY]
    ELSE s

\* the branch of onMouseDown for a press on the body of clickedNode
MouseDownOnBody(s, clickedNode, canvasX, canvasY, ctrl) ==
    LET Grab(sel) ==
            LET target == IF Len(sel.selectedNodes) > 1
                          THEN [kind |-> "selectedNodes", obj |-> NullRef]
                          ELSE [kind |-> "node", obj |-> clickedNode]
                OnHandle(handle) ==
                    IF handle # "none"
                    THEN [sel EXCEPT !.isResizing = TRUE, !.resizeHandle = handle,
                                     !.resizeTarget = clickedNode]
                    ELSE IF ctrl
                    THEN [sel EXCEPT !.isConnecting = TRUE,
                                     !.connectionStart = clickedNode]
                    ELSE [sel EXCEPT !.dragTarget = target]
            IN  IF Len(sel.selectedNodes) = 1 /\ sel.heap[clickedNode].isSelected
                THEN OnHandle(getResizeHandle(sel.heap[clickedNode], canvasX, canvasY))
                ELSE IF ~ctrl
                THEN [sel EXCEPT !.dragTarget = target]
                ELSE sel
    IN  Grab(IF ctrl
             THEN IF s.heap[clickedNode].isSelected
                  THEN removeFromSelection(s, clickedNode)
                  ELSE addToSelection(s, clickedNode)
             ELSE IF ~s.heap[clickedNode].isSelected
                  THEN selectNode(s, clickedNode)
                  ELSE s)

onMouseDown(s, mouseX, mouseY, button, ctrl) ==
    LET canvasX == ToCanvas(mouseX, s.offsetX, s.scale)
        canvasY == ToCanvas(mouseY, s.offsetY, s.scale)
        \* the press is on clickedNode, near its border (borderResizeHandle) or not
        OnNode(clickedNode, borderResizeHandle) ==
            IF borderResizeHandle # "none"
            THEN MouseDownTail([(IF Len(s.selectedNodes) > 1
                                 THEN selectNode(s, clickedNode)
                                 ELSE IF ~s.heap[clickedNode].isSelected
                                 THEN selectNode(s, clickedNode)
                                 ELSE s)
                                    EXCEPT !.isResizing = TRUE,
                                           !.resizeHandle = borderResizeHandle,
                                           !.resizeTarget = clickedNode],
                               mouseX, mouseY)
            ELSE MouseDownTail(MouseDownOnBody(s, clickedNode, canvasX, canvasY, ctrl),
                               mouseX, mouseY)
        \* the press is on empty canvas
        StartSelection(cleared) ==
            IF ~cleared.spacePressed
            THEN [cleared EXCEPT !.isSelecting = TRUE,
                                 !.selectionStart = <<canvasX, canvasY>>,
                                 !.selectionEnd = <<canvasX, canvasY>>]
            ELSE cleared
        At(clickedNode) ==
            IF clickedNode # NullRef
            THEN OnNode(clickedNode,
                        getBorderResizeHandle(s.heap[clickedNode], canvasX, canvasY))
            ELSE MouseDownTail(StartSelection(IF ~ctrl THEN clearSelection(s) ELSE s),
                               mouseX, mouseY)
    IN  IF button = 2 \/ (button = 0 /\ s.spacePressed)
        THEN [s EXCEPT !.isPanning = TRUE, !.isDragging = TRUE,
                       !.dragStartX = mouseX, !.dragStartY = mouseY,
                       !.dragTarget = [kind |-> "canvas", obj |-> NullRef]]
        ELSE IF button # 0 THEN s
        ELSE At(getNodeAtPoint(s, canvasX, canvasY))

\* the switch over this.resizeHandle in onMouseMove, applied to the target node
ResizeNode(node, handle, scaledDeltaX, scaledDeltaY) ==
    LET minWidth == 60
        minHeight == 40
        newWidthLeft == node.width - scaledDeltaX
        newHeightTop == node.height - scaledDeltaY
        growRight == [node EXCEPT !.width = Max(minWidth, node.width + scaledDeltaX)]
        moveTop(n) == IF newHeightTop >= minHeight
                      THEN [n EXCEPT !.y = @ + scaledDeltaY, !.height = newHeightTop]
                      ELSE n
        moveLeft(n) == IF newWidthLeft >= minWidth
                       THEN [n EXCEPT !.x = @ + scaledDeltaX, !.width = newWidthLeft]
                       ELSE n
        growBottom(n) == [n EXCEPT !.height = Max(minHeight, node.height + scaledDeltaY)]
    IN  CASE handle = "top" -> moveTop(node)
          [] handle = "bottom" -> growBottom(node)
          [] handle = "left" -> moveLeft(node)
          [] handle = "right" -> growRight
          [] handle = "top-left" ->
                IF newWidthLeft >= minWidth /\ newHeightTop >= minHeight
                THEN [node EXCEPT !.x = @ + scaledDeltaX, !.y = @ + scaledDeltaY,
                                  !.width = newWidthLeft, !.height = newHeightTop]
                ELSE node
          [] handle = "top-right" ->
                [moveTop(node) EXCEPT !.width = Max(minWidth, node.width + scaledDeltaX)]
          [] handle = "bottom-left" -> growBottom(moveLeft(node))
          [] handle = "bottom-right" -> growBottom(growRight)
          [] OTHER -> node

\* a move that follows the pointer horizontally only
MoveByAcross(node, dx, dy) == [node EXCEPT !.x = @ + dx]

MoveBy(node, dx, dy) == [node EXCEPT !.x = @ + dx, !.y = @ + dy]

onMouseMove(s, mouseX, mouseY) ==
    LET canvasX == ToCanvas(mouseX, s.offsetX, s.scale)
        canvasY == ToCanvas(mouseY, s.offsetY, s.scale)
        deltaX == mouseX - s.dragStartX
        deltaY == mouseY - s.dragStartY
        scaledDeltaX == deltaX \div s.scale
        scaledDeltaY == deltaY \div s.scale
    IN  IF s.isSelecting
        THEN draw([s EXCEPT !.selectionEnd = <<canvasX, canvasY>>])
        ELSE IF s.isConnecting
        THEN draw(s)
        ELSE IF s.isResizing
        THEN draw([s EXCEPT !.heap[s.resizeTarget] =
                                ResizeNode([@ EXCEPT !.manuallyResized = TRUE],
                                           s.resizeHandle, scaledDeltaX, scaledDeltaY),
                            !.dragStartX = mouseX, !.dragStartY = mouseY])
        ELSE IF ~s.isDragging
        THEN s
        ELSE LET moved ==
                     CASE s.dragTarget.kind = "canvas" ->
                              [s EXCEPT !.offsetX = @ + deltaX, !.offsetY = @ + deltaY]
                       [] s.dragTarget.kind = "selectedNodes" ->
                              [s EXCEPT !.heap = [o \in DOMAIN s.heap |->
                                  IF o \in Range(s.selectedNodes)
                                  THEN MoveBy(s.heap[o], scaledDeltaX, scaledDeltaY)
                                  ELSE s.heap[o]]]
                       [] s.dragTarget.kind = "node" ->
                              [s EXCEPT !.heap[s.dragTarget.obj] =
                                            MoveBy(@, scaledDeltaX, scaledDeltaY)]
                       [] OTHER -> s
             IN  draw([moved EXCEPT !.dragStartX = mouseX, !.dragStartY = mouseY])

\* the nodes whose box lies wholly inside the selection rectangle
NodesInsideSelection(s) ==
    LET rx == Min(s.selectionStart[1], s.selectionEnd[1])
        ry == Min(s.selectionStart[2], s.selectionEnd[2])
        rw == Abs(s.selectionEnd[1] - s.selectionStart[1])
        rh == Abs(s.selectionEnd[2] - s.selectionStart[2])
        inside(node) == /\ node.x >= rx /\ node.x + node.width <= rx + rw
                        /\ node.y >= ry /\ node.y + node.height <= ry + rh
    IN  SeqFilterIdx(s.nodes, {i \in DOMAIN s.nodes : inside(s.heap[s.nodes[i]])}, 1)

\* the nodes whose box overlaps the selection rectangle, in this.nodes order
NodesInSelection(s) ==
    LET rx == Min(s.selectionStart[1], s.selectionEnd[1])
        ry == Min(s.selectionStart[2], s.selectionEnd[2])
        rw == Abs(s.selectionEnd[1] - s.selectionStart[1])
        rh == Abs(s.selectionEnd[2] - s.selectionStart[2])
        inside(node) == /\ node.x < rx + rw /\ node.x + node.width > rx
                        /\ node.y < ry + rh /\ node.y + node.height > ry
    IN  SeqFilterIdx(s.nodes, {i \in DOMAIN s.nodes : inside(s.heap[s.nodes[i]])}, 1)

onMouseUp(s, mouseX, mouseY, ctrl) ==
    IF s.isSelecting
    THEN LET Choose(ended, nodesInSelection) ==
                 IF ctrl
                 THEN AddAllToSelection(ended, nodesInSelection)
                 ELSE selectNodes(ended, nodesInSelection)
         IN  draw(Choose([s EXCEPT !.isSelecting = FALSE], NodesInSelection(s)))
    ELSE IF s.isConnecting
    THEN LET canvasX == ToCanvas(mouseX, s.offsetX, s.scale)
             canvasY == ToCanvas(mouseY, s.offsetY, s.scale)
             Connect(targetNode) ==
                 IF targetNode # NullRef /\ targetNode # s.connectionStart
                 THEN createConnection(s, s.connectionStart, targetNode)
                 ELSE s
         IN  draw([Connect(getNodeAtPoint(s, canvasX, canvasY))
                       EXCEPT !.isConnecting = FALSE, !.connectionStart = NullRef])
    ELSE IF s.isResizing
    THEN saveToLocalStorage([s EXCEPT !.isResizing = FALSE, !.resizeHandle = "none",
                                      !.resizeTarget = NullRef])
    ELSE saveToLocalStorage([s EXCEPT !.isDragging = FALSE, !.isPanning = FALSE,
                                      !.dragTarget = NoTarget])

\* ------------------------------------------------------------------------
\* Text editing
\* ------------------------------------------------------------------------
\* editInput is TRUE while the textarea exists; its value is what the user has
\* typed by the time the edit ends
startEditingNode(s, o) == [s EXCEPT !.editingNode = o, !.editInput = TRUE]

\* a finishEditingNode that sizes the node to its text whatever its flag
finishEditingNodeResizing(s, value) ==
    IF s.editingNode # NullRef /\ s.editInput
    THEN LET Sized(typed) ==
                 [typed EXCEPT !.height =
                     Max(40, calculateMarkdownHeight(typed.text, typed.width, Margins))]
             Commit(saved) ==
                 [saved EXCEPT !.heap[saved.editingNode] = Sized([@ EXCEPT !.text = value]),
                               !.editInput = FALSE,
                               !.editingNode = NullRef]
         IN  draw(saveToLocalStorage(Commit(saveState(s))))
    ELSE s

finishEditingNode(s, value) ==
    IF s.editingNode # NullRef /\ s.editInput
    THEN LET Sized(typed) ==
                 IF ~typed.manuallyResized
                 THEN [typed EXCEPT !.height =
                          Max(40, calculateMarkdownHeight(typed.text, typed.width, Margins))]
                 ELSE typed
             Commit(saved) ==
                 [saved EXCEPT !.heap[saved.editingNode] = Sized([@ EXCEPT !.text = value]),
                               !.editInput = FALSE,
                               !.editingNode = NullRef]
         IN  draw(saveToLocalStorage(Commit(saveState(s))))
    ELSE s

\* finishEditingNode as the keydown listener of the textarea calls it for an
\* unshifted Enter (1296-1301). removeChild (1325) takes the focused textarea
\* out of the document. A host that raises blur for that removal runs the blur
\* listener (1295), which is finishEditingNode again, while editingNode and
\* editInput are still set (they are cleared after removeChild, 1326-1327):
\* the nested call pushes, assigns, removes the textarea and completes, and
\* the outer removeChild then throws NotFoundError, which ends the outer
\* call. A host that raises no blur runs the function once.
finishEditingNodeOnEnter(s, value, blurOnRemove) ==
    IF s.editingNode # NullRef /\ s.editInput /\ blurOnRemove
    THEN LET Sized(typed) ==
                 IF ~typed.manuallyResized
                 THEN [typed EXCEPT !.height =
                          Max(40, calculateMarkdownHeight(typed.text, typed.width, Margins))]
                 ELSE typed
             Assigned(saved) ==
                 [saved EXCEPT !.heap[saved.editingNode] = Sized([@ EXCEPT !.text = value])]
         IN  finishEditingNode(Assigned(saveState(s)), value)
    ELSE finishEditingNode(s, value)

\* the textarea loses focus when the user presses a mouse button outside it
Blur(s, value) == finishEditingNode(s, value)

\* what the user may have typed when an edit ends
TypedValues(s) == IF s.editingNode # NullRef /\ s.editInput THEN EditTexts ELSE {<<>>}

\* the handler of dblclick; the timer of the else branch is held in editTimer
onDoubleClick(s, mouseX, mouseY) ==
    LET canvasX == ToCanvas(mouseX, s.offsetX, s.scale)
        canvasY == ToCanvas(mouseY, s.offsetY, s.scale)
        At(clickedNode) ==
            IF clickedNode # NullRef
            THEN startEditingNode(s, clickedNode)
            ELSE [createNode(s, NewNodeText, canvasX - 100, canvasY - 30, 0)
                      EXCEPT !.editTimer = CreatedNode(s)]
    IN  At(getNodeAtPoint(s, canvasX, canvasY))

\* ------------------------------------------------------------------------
\* Keyboard
\* ------------------------------------------------------------------------
\* an onKeyDown whose shortcuts do not look at the edit in progress
onKeyDownUnguarded(s, key, ctrl, shift) ==
    IF key = " " /\ ~s.spacePressed
    THEN IF s.editingNode # NullRef \/ s.editInput
         THEN s
         ELSE [s EXCEPT !.spacePressed = TRUE]
    ELSE CASE key \in {"Delete", "Backspace"} ->
                  IF Len(s.selectedNodes) > 0 THEN deleteSelectedNodes(s) ELSE s
           [] key = "a" -> IF ctrl THEN selectAllNodes(s) ELSE s
           [] key = "z" -> IF ctrl /\ shift THEN redo(s)
                           ELSE IF ctrl THEN undo(s)
                           ELSE s
           [] key = "y" -> IF ctrl THEN redo(s) ELSE s
           [] OTHER -> s

\* document.activeElement is the textarea exactly while a node is edited
onKeyDown(s, key, ctrl, shift) ==
    IF key = " " /\ ~s.spacePressed
    THEN IF s.editingNode # NullRef \/ s.editInput
         THEN s
         ELSE [s EXCEPT !.spacePressed = TRUE]
    ELSE IF s.editingNode # NullRef \/ s.editInput
    THEN s
    ELSE CASE key \in {"Delete", "Backspace"} ->
                  IF Len(s.selectedNodes) > 0 THEN deleteSelectedNodes(s) ELSE s
           [] key = "a" -> IF ctrl THEN selectAllNodes(s) ELSE s
           [] key = "z" -> IF ctrl /\ shift THEN redo(s)
                           ELSE IF ctrl THEN undo(s)
                           ELSE s
           [] key = "y" -> IF ctrl THEN redo(s) ELSE s
           [] OTHER -> s

onKeyUp(s, key) == IF key = " " THEN [s EXCEPT !.spacePressed = FALSE] ELSE s

\* ------------------------------------------------------------------------
\* Import
\* ------------------------------------------------------------------------
ImportNode(id, x, y, selected) ==
    [id |-> id, text |-> <<"a">>, x |-> x, y |-> y, width |-> 400, height |-> 50,
     isSelected |-> selected, manuallyResized |-> FALSE, generatedByModel |-> 0]

\* the parsed contents of the files the user may pick: an export of two connected
\* nodes taken while the second was selected, which also holds a connection
\* whose far end is missing; and a file whose nodes entry is not an array
ImportFiles ==
    {[wellFormed |-> TRUE,
      nodes |-> <<ImportNode(1, 400, 300, FALSE), ImportNode(2, 0, 70, TRUE)>>,
      connections |-> <<[id |-> 3, from |-> 1, to |-> 2], [id |-> 4, from |-> 2, to |-> 5]>>,
      hasView |-> FALSE,
      offsetX |-> 0, offsetY |-> 0, scale |-> 1],
     [wellFormed |-> FALSE, nodes |-> <<>>, connections |-> <<>>, hasView |-> FALSE,
      offsetX |-> 0, offsetY |-> 0, scale |-> 1]}

\* the data exportJSON serialises: the nodes and the connections; the view is
\* not part of it, and exportDate is not read back
exportJSON(s) ==
    [wellFormed |-> TRUE, nodes |-> NodeValues(s), connections |-> s.connections,
     hasView |-> FALSE, offsetX |-> 0, offsetY |-> 0, scale |-> 1]

\* a loadCanvasData that takes the nodes of the file and forgets its connections
loadCanvasDataNodesOnly(s, data) ==
    IF ~data.wellFormed THEN s
    ELSE LET Loaded(saved, a) == [saved EXCEPT !.heap = a[1], !.nodes = a[2]]
         IN  Loaded(saveState(s), AllocAll(s.heap, data.nodes))

\* loadCanvasData up to the statement `this.selectedNode = null` (line 1725).
\* selectedNode is an accessor with a getter only (line 1219) and class code is
\* strict, so that assignment throws a TypeError; the catch block reports it,
\* and the validation, the save and the redraw that follow are not run.
loadCanvasData(s, data) ==
    IF ~data.wellFormed THEN s
    ELSE LET Loaded(saved, a) ==
                 [saved EXCEPT !.heap = a[1], !.nodes = a[2],
                               !.connections = data.connections]
             View(loaded) ==
                 IF data.hasView
                 THEN [loaded EXCEPT !.offsetX = data.offsetX, !.offsetY = data.offsetY,
                                     !.scale = data.scale]
                 ELSE loaded
         IN  View(Loaded(saveState(s), AllocAll(s.heap, data.nodes)))

\* ------------------------------------------------------------------------
\* Generation
\* ------------------------------------------------------------------------
NoGen == [active |-> FALSE, source |-> NullRef, pending |-> {}, totalNodes |-> 0]

\* radius * cos(angle) and radius * sin(angle), rounded, with radius 180 and
\* angle = (totalNodes / (models * 1.5)) * 2 * pi
CircleOffset(totalNodes, models) ==
    CASE totalNodes = 0 -> <<180, 0>>
      [] totalNodes = 1 /\ models = 2 -> <<0 - 90, 156>>
      [] totalNodes = 1 /\ models = 3 -> <<31, 177>>
      [] totalNodes = 2 /\ models = 3 -> <<0 - 169, 62>>
      [] OTHER -> <<0, 0>>

\* a generateAI without the test of isGeneratingAI
generateAIReentrant(s) ==
    IF ~s.apiKey \/ Len(s.selectedNodes) # 1 THEN s
    ELSE LET Request(saved) ==
                 IF FindNodeById(saved, saved.heap[s.selectedNodes[1]].id) = NullRef
                 THEN [saved EXCEPT !.isGeneratingAI = FALSE]
                 ELSE [saved EXCEPT !.gen = [active |-> TRUE, source |-> s.selectedNodes[1],
                                             pending |-> 1..NumModels, totalNodes |-> 0]]
         IN  Request(saveState([s EXCEPT !.isGeneratingAI = TRUE]))

\* generateAI up to the await of generateAIIdeasMultipleModels
generateAI(s) ==
    IF ~s.apiKey THEN s
    ELSE IF Len(s.selectedNodes) = 0 THEN s
    ELSE IF Len(s.selectedNodes) > 1 THEN s
    ELSE IF s.isGeneratingAI THEN s
    ELSE LET sourceNode == s.selectedNodes[1]
             Request(saved) ==
                 LET nodeStillExists ==
                         FindNodeById(saved, saved.heap[sourceNode].id) # NullRef
                 IN  IF ~nodeStillExists
                     THEN [saved EXCEPT !.isGeneratingAI = FALSE]
                     ELSE [saved EXCEPT !.gen = [active |-> TRUE, source |-> sourceNode,
                                                 pending |-> 1..NumModels,
                                                 totalNodes |-> 0]]
         IN  Request(saveState([s EXCEPT !.isGeneratingAI = TRUE]))

\* the node and the connection onModelComplete adds for the idea of a model
AddIdea(s, model) ==
    LET sourceNode == s.heap[s.gen.source]
        off == CircleOffset(s.gen.totalNodes, NumModels)
        x == sourceNode.x + sourceNode.width \div 2 + off[1] - 200
        y == sourceNode.y + sourceNode.height \div 2 + off[2] - 30
    IN  saveToLocalStorage(draw(
            [createConnection(createNode(s, IdeaText, x, y, model),
                              s.gen.source, CreatedNode(s))
                 EXCEPT !.gen.totalNodes = @ + 1]))

\* an onModelComplete that does not look for the source node again
onModelCompleteUnchecked(s, model, success) ==
    IF success THEN AddIdea(s, model) ELSE s

\* an onModelComplete that connects the new node to the source
onModelCompleteReversed(s, model, success) ==
    IF FindNodeById(s, s.heap[s.gen.source].id) # NullRef /\ success
    THEN saveToLocalStorage(draw(
             [createConnection(createNode(s, IdeaText, 0, 0, model),
                               CreatedNode(s), s.gen.source)
                  EXCEPT !.gen.totalNodes = @ + 1]))
    ELSE s

\* an onModelComplete that adds the ideas of a result whatever its success flag
\* (the result of a failed model carries its error text as an idea)
onModelCompleteIgnoringSuccess(s, model, success) ==
    IF FindNodeById(s, s.heap[s.gen.source].id) # NullRef
    THEN AddIdea(s, model)
    ELSE s

\* the body of onModelComplete for the result of one model
onModelComplete(s, model, success) ==
    LET sourceStillExists == FindNodeById(s, s.heap[s.gen.source].id) # NullRef
    IN  IF ~sourceStillExists THEN s
        ELSE IF success THEN AddIdea(s, model)
        ELSE s

\* a batch that ends when its first model settles
modelSettlesFirst(s, model, success) ==
    [onModelComplete([s EXCEPT !.last.ok = success], model, success)
         EXCEPT !.gen = NoGen, !.isGeneratingAI = FALSE]

\* one model of the batch settles: its callback runs, and when it was the last
\* one the awaiting generateAI resumes and its finally block runs
modelSettles(s, model, success) ==
    LET Settled(called) ==
            LET left == called.gen.pending \ {model}
            IN  IF left = {}
                THEN [called EXCEPT !.gen = NoGen, !.isGeneratingAI = FALSE]
                ELSE [called EXCEPT !.gen.pending = left]
    IN  Settled(onModelComplete([s EXCEPT !.last.ok = success], model, success))

\* ------------------------------------------------------------------------
\* View: zoom and reset. The zoom factors are not whole numbers, so these
\* handlers take a controller whose offsetX, offsetY and scale are fractions
\* <<numerator, denominator>> in lowest terms with a positive denominator;
\* the arithmetic is exact.
\* ------------------------------------------------------------------------
\* the fraction n / d (d > 0) in lowest terms
Frac(n, d) ==
    LET RECURSIVE GCD(_, _)
        GCD(a, b) == IF b = 0 THEN a ELSE GCD(b, a % b)
        Reduce(g) == <<n \div g, d \div g>>
    IN  Reduce(GCD(Abs(n), d))

\* a + b
FracAdd(a, b) ==
    LET Over(r) == Frac(a[1] * r[2] + b[1] * r[1], a[2] * r[2])
    IN  Over(Frac(a[2], b[2]))

\* a * b
FracMul(a, b) ==
    LET Cross(p, q) == Frac(p[1] * q[1], p[2] * q[2])
    IN  Cross(Frac(a[1], b[2]), Frac(b[1], a[2]))

\* a zoom that moves the offset by the requested factor, whatever scale the
\* clamp leaves
ZoomAboutByFactor(s, x, y, factor) ==
    LET Neg(a) == <<0 - a[1], a[2]>>
        Clamp(v) == IF 10 * v[1] < v[2] THEN <<1, 10>>
                    ELSE IF v[1] > 3 * v[2] THEN <<3, 1>>
                    ELSE v
        Shift(offset, m) ==
            FracAdd(<<m, 1>>, Neg(FracMul(FracAdd(<<m, 1>>, Neg(offset)), factor)))
    IN  draw([s EXCEPT !.scale = Clamp(FracMul(s.scale, factor)),
                       !.offsetX = Shift(s.offsetX, x),
                       !.offsetY = Shift(s.offsetY, y)])

\* the statements the zoom branches of onWheel and zoom share: the scale
\* becomes Math.max(0.1, Math.min(3.0, this.scale * factor)) and the offset is
\* moved by the displacement of the world point under (x, y)
ZoomAbout(s, x, y, factor) ==
    LET Neg(a) == <<0 - a[1], a[2]>>
        Inv(a) == <<a[2], a[1]>>
        Clamp(v) == IF 10 * v[1] < v[2] THEN <<1, 10>>
                    ELSE IF v[1] > 3 * v[2] THEN <<3, 1>>
                    ELSE v
        Shift(offset, m, newScale) ==
            LET beforeZoom == FracMul(FracAdd(<<m, 1>>, Neg(offset)), Inv(s.scale))
                afterZoom == FracMul(FracAdd(<<m, 1>>, Neg(offset)), Inv(newScale))
            IN  FracAdd(offset, FracMul(FracAdd(afterZoom, Neg(beforeZoom)), newScale))
        To(newScale) ==
            [s EXCEPT !.scale = newScale,
                      !.offsetX = Shift(s.offsetX, x, newScale),
                      !.offsetY = Shift(s.offsetY, y, newScale)]
    IN  draw(To(Clamp(FracMul(s.scale, factor))))

\* wheel events: a mouse wheel notch either way, a trackpad pinch either way
\* (the browser reports it with ctrlKey), a two-finger scroll, and a scroll
\* with the Cmd key held
WheelEvents ==
    {[deltaX |-> 0, deltaY |-> 100, ctrlKey |-> FALSE, metaKey |-> FALSE],
     [deltaX |-> 0, deltaY |-> 0 - 100, ctrlKey |-> FALSE, metaKey |-> FALSE],
     [deltaX |-> 0, deltaY |-> 10, ctrlKey |-> TRUE, metaKey |-> FALSE],
     [deltaX |-> 0, deltaY |-> 0 - 10, ctrlKey |-> TRUE, metaKey |-> FALSE],
     [deltaX |-> 20, deltaY |-> 0 - 10, ctrlKey |-> FALSE, metaKey |-> FALSE],
     [deltaX |-> 0, deltaY |-> 10, ctrlKey |-> FALSE, metaKey |-> TRUE]}

onWheel(s, mouseX, mouseY, e) ==
    LET isTrackpad == Abs(e.deltaY) < 50 \/ Abs(e.deltaX) > 0
    IN  IF e.ctrlKey /\ isTrackpad
        THEN ZoomAbout(s, mouseX, mouseY, IF e.deltaY > 0 THEN <<19, 20>> ELSE <<21, 20>>)
        ELSE IF isTrackpad /\ ~e.ctrlKey /\ ~e.metaKey
        THEN draw([s EXCEPT !.offsetX = FracAdd(@, <<0 - e.deltaX, 1>>),
                            !.offsetY = FracAdd(@, <<0 - e.deltaY, 1>>)])
        ELSE ZoomAbout(s, mouseX, mouseY, IF e.deltaY > 0 THEN <<9, 10>> ELSE <<11, 10>>)

\* zoom(factor): about the centre of the canvas
zoom(s, factor) == ZoomAbout(s, CanvasWidth \div 2, CanvasHeight \div 2, factor)

resetView(s) == draw([s EXCEPT !.offsetX = <<0, 1>>, !.offsetY = <<0, 1>>, !.scale = <<1, 1>>])

\* ------------------------------------------------------------------------
\* Construction
\* ------------------------------------------------------------------------
\* last before any event: name of the handler, number of saveState calls it
\* made, the ids its createConnection call was given (<<0, 0>>: no call), the
\* number of snapshots its saveState calls discarded, and the success flag of
\* the model result a completion callback was given
Event(name) == [name |-> name, pushes |-> 0, conn |-> <<0, 0>>, cut |-> 0, ok |-> FALSE]

NoEvent == Event("init")

\* the fields set by the constructor; the two localStorage items survive
Constructed(storeItem, key) ==
    [heap |-> <<>>, nodes |-> <<>>, connections |-> <<>>, selectedNodes |-> <<>>,
     offsetX |-> 0, offsetY |-> 0, scale |-> 1, isDragging |-> FALSE,
     dragStartX |-> 0, dragStartY |-> 0, dragTarget |-> NoTarget,
     isConnecting |-> FALSE, connectionStart |-> NullRef, isResizing |-> FALSE,
     resizeHandle |-> "none", resizeTarget |-> NullRef, isSelecting |-> FALSE,
     selectionStart |-> <<0, 0>>, selectionEnd |-> <<0, 0>>, isPanning |-> FALSE,
     spacePressed |-> FALSE, editingNode |-> NullRef, editInput |-> FALSE,
     history |-> <<>>, historyIndex |-> 0 - 1, apiKey |-> key, isGeneratingAI |-> FALSE,
     store |-> storeItem, gen |-> NoGen, editTimer |-> NullRef, buttonsDown |-> {},
     last |-> NoEvent]

\* init(): load the saved canvas, record the first history entry, draw
init(s) == draw(saveState(loadFromLocalStorage(s)))

\* ------------------------------------------------------------------------
\* Events
\* ------------------------------------------------------------------------
Buttons == {0, 2}

\* the controller as the handler of the event named name finds it
Start(name) == [this EXCEPT !.last = Event(name)]

\* the handler has run: r is the state it leaves
Done(r) == Becomes(Collect(r))

\* one more input event within the explored number of events
Tick == steps < MaxSteps /\ steps' = steps + 1

Editing == editingNode # NullRef /\ editInput

\* the toolbar and the file dialog are used with no mouse button held and after
\* the textarea has lost focus
AtRest == buttonsDown = {} /\ ~Editing

AddNodeClick ==
    /\ Tick /\ AtRest
    /\ Len(nodes) < MaxNodes
    /\ Done(CreateNodeDefault(Start("createNode")))

\* mousedown on the canvas; when a node is being edited the press also takes
\* the focus from the textarea, whose blur handler then runs
MouseDown(p, button, ctrl) ==
    /\ Tick
    /\ button \notin buttonsDown
    /\ \E value \in TypedValues(this) :
          Done([Blur(onMouseDown(Start("mouseDown"), p[1], p[2], button, ctrl), value)
                    EXCEPT !.buttonsDown = @ \cup {button}])

MouseMove(p) ==
    /\ Tick
    /\ Done(onMouseMove(Start("mouseMove"), p[1], p[2]))

MouseUp(p, button, ctrl) ==
    /\ Tick
    /\ button \in buttonsDown
    /\ Done([onMouseUp(Start("mouseUp"), p[1], p[2], ctrl)
                 EXCEPT !.buttonsDown = @ \ {button}])

\* a double click with the left button: the browser delivers mousedown,
\* mouseup, mousedown, mouseup and then dblclick, all at the same point
DoubleClick(p) ==
    /\ Tick /\ AtRest
    /\ editTimer = NullRef
    /\ LET Click(s) == onMouseUp(onMouseDown(s, p[1], p[2], 0, FALSE), p[1], p[2], FALSE)
           OnNode(s) == getNodeAtPoint(s, ToCanvas(p[1], s.offsetX, s.scale),
                                       ToCanvas(p[2], s.offsetY, s.scale)) # NullRef
       IN  \E second \in {Click(Click(Start("dblclick")))} :
               /\ OnNode(second) \/ Len(nodes) < MaxNodes
               /\ Done(onDoubleClick(second, p[1], p[2]))

\* the 50 ms timer set by onDoubleClick expires
EditTimerFires ==
    /\ Tick
    /\ editTimer # NullRef
    /\ Done([startEditingNode(Start("editTimer"), editTimer) EXCEPT !.editTimer = NullRef])

\* unshifted Enter in the textarea, on a host that raises blur when the
\* focused textarea is removed or on one that does not; the second case is
\* also the textarea losing focus to another window or element
FinishEdit(value) ==
    /\ Tick
    /\ Editing
    /\ \E blurOnRemove \in BOOLEAN :
           Done(finishEditingNodeOnEnter(Start("finishEdit"), value, blurOnRemove))

KeyDelete ==
    /\ Tick
    /\ Done(onKeyDown(Start("delete"), "Delete", FALSE, FALSE))

KeySelectAll ==
    /\ Tick
    /\ Done(onKeyDown(Start("selectAll"), "a", TRUE, FALSE))

KeyUndo ==
    /\ Tick
    /\ Done(onKeyDown(Start("undo"), "z", TRUE, FALSE))

KeyRedo ==
    /\ Tick
    /\ \E key \in {"z", "y"} : Done(onKeyDown(Start("redo"), key, TRUE, key = "z"))

KeySpaceDown ==
    /\ Tick
    /\ ~spacePressed
    /\ Done(onKeyDown(Start("spaceDown"), " ", FALSE, FALSE))

KeySpaceUp ==
    /\ Tick
    /\ spacePressed
    /\ Done(onKeyUp(Start("spaceUp"), " "))

ImportFile(data) ==
    /\ Tick /\ AtRest
    /\ Done(loadCanvasData(Start("import"), data))

GenerateClick ==
    /\ Tick /\ AtRest
    /\ Done(generateAI(Start("generateAI")))

ModelSettles(model, success) ==
    /\ Tick
    /\ gen.active /\ model \in gen.pending
    /\ Done(modelSettles(Start("modelComplete"), model, success))

\* the page is loaded again: constructor and init() over the saved items
Reload ==
    /\ Tick
    /\ LET r == init([Constructed(store, apiKey) EXCEPT !.last = Event("reload")])
       IN  Becomes(r)

Init ==
    /\ steps = 0
    /\ \E key \in BOOLEAN : Is(init(Constructed(NoStore, key)))

Next ==
    \/ AddNodeClick
    \/ \E p \in Points, b \in Buttons, c \in BOOLEAN : MouseDown(p, b, c)
    \/ \E p \in Points : MouseMove(p)
    \/ \E p \in Points, b \in Buttons, c \in BOOLEAN : MouseUp(p, b, c)
    \/ \E p \in Points : DoubleClick(p)
    \/ EditTimerFires
    \/ \E value \in EditTexts : FinishEdit(value)
    \/ KeyDelete
    \/ KeySelectAll
    \/ KeyUndo
    \/ KeyRedo
    \/ KeySpaceDown
    \/ KeySpaceUp
    \/ \E data \in ImportFiles : ImportFile(data)
    \/ GenerateClick
    \/ \E m \in 1..NumModels, ok \in BOOLEAN : ModelSettles(m, ok)
    \/ Reload

Spec == Init /\ [][Next]_vars

\* ------------------------------------------------------------------------
\* A long session of imports with a few undo and redo keys in between: the
\* file dialog is used any number of times, the keys within MaxSteps
\* ------------------------------------------------------------------------
\* the file picked in this session: an export of two connected nodes taken with
\* nothing selected
HistoryFile ==
    [wellFormed |-> TRUE,
     nodes |-> <<ImportNode(1, 400, 300, FALSE), ImportNode(2, 0, 70, FALSE)>>,
     connections |-> <<[id |-> 3, from |-> 1, to |-> 2]>>,
     hasView |-> FALSE, offsetX |-> 0, offsetY |-> 0, scale |-> 1]

HistoryImport ==
    /\ AtRest
    /\ Done(loadCanvasData(Start("import"), HistoryFile))
    /\ UNCHANGED steps

NextHistory ==
    \/ HistoryImport
    \/ KeyUndo
    \/ KeyRedo

SpecHistory == Init /\ [][NextHistory]_vars

\* ------------------------------------------------------------------------
\* Observations
\* ------------------------------------------------------------------------
\* a graph value with the selection flags cleared
Unselected(g) ==
    [nodes |-> [i \in DOMAIN g.nodes |-> [g.nodes[i] EXCEPT !.isSelected = FALSE]],
     connections |-> g.connections]

\* a graph value as restoreState shows it: flags cleared, heights as drawn
Restored(g) ==
    [nodes |-> [i \in DOMAIN g.nodes |-> drawNode([g.nodes[i] EXCEPT !.isSelected = FALSE])],
     connections |-> g.connections]

\* what the user placed: each node without its selection flag and without a
\* height that the renderer computes, and the connections
Placed(s) ==
    [nodes |-> [i \in DOMAIN s.nodes |->
                   [s.heap[s.nodes[i]] EXCEPT
                       !.isSelected = FALSE,
                       !.height = IF s.heap[s.nodes[i]].manuallyResized THEN @ ELSE 0]],
     connections |-> s.connections]

\* the connections of s that join the nodes with ids a and b
Between(s, a, b) ==
    {i \in DOMAIN s.connections :
        \/ s.connections[i].from = a /\ s.connections[i].to = b
        \/ s.connections[i].from = b /\ s.connections[i].to = a}

\* the states one mutating action (create node, create connection, bulk
\* delete, edit commit) leads to from s
Mutations(s) ==
    {CreateNodeDefault(s)}
        \cup (IF Len(s.selectedNodes) > 0 THEN {deleteSelectedNodes(s)} ELSE {})
        \cup {createConnection(s, pair[1], pair[2]) :
                 pair \in {ab \in Range(s.nodes) \X Range(s.nodes) :
                              /\ ab[1] # ab[2]
                              /\ Between(s, s.heap[ab[1]].id, s.heap[ab[2]].id) = {}}}
        \cup {finishEditingNode(startEditingNode(s, o), value) :
                 o \in Range(s.nodes), value \in EditTexts}

RECURSIVE MutatedN(_, _)
\* the states n mutating actions lead to from the states of S
MutatedN(S, n) ==
    IF n = 0 THEN S ELSE MutatedN(UNION {Mutations(s) : s \in S}, n - 1)

RECURSIVE UndoN(_, _)
UndoN(s, n) == IF n = 0 THEN s ELSE UndoN(undo(s), n - 1)

RECURSIVE RedoN(_, _)
RedoN(s, n) == IF n = 0 THEN s ELSE RedoN(redo(s), n - 1)

RECURSIVE UndoAll(_)
\* undo() repeated until it changes nothing
UndoAll(s) ==
    LET Next_(u) == IF u = s THEN s ELSE UndoAll(u)
    IN  Next_(undo(s))

\* longest run of mutating actions tried for the round trip
MaxMutations == 2

\* ------------------------------------------------------------------------
\* Properties
\* ------------------------------------------------------------------------
\* C1: from any reachable state, after n >= 1 mutating actions with no undo in
\* between, undo() n times and then redo() n times leaves nodes and
\* connections equal to what they were after the n-th mutation (selection
\* flags apart, which every restore clears).
C1_UndoRedoRoundTrip ==
    \A n \in 1..MaxMutations :
        \A after \in MutatedN({this}, n) :
            Unselected(GraphValue(RedoN(UndoN(after, n), n))) = Unselected(GraphValue(after))

\* C2: in every state after init the history holds between 1 and 50 snapshots
\* and historyIndex points into it; a push onto a full history whose index is
\* at the end drops the oldest snapshot and appends the new one; and repeated
\* undo() stops at index 0 showing the oldest retained snapshot.
C2_HistoryBounded ==
    /\ Len(history) >= 1 /\ Len(history) <= maxHistorySize
    /\ historyIndex >= 0 /\ historyIndex <= Len(history) - 1
    /\ \A pushed \in {saveState(this)} :
          /\ Len(pushed.history) <= maxHistorySize
          /\ (Len(history) = maxHistorySize /\ historyIndex = Len(history) - 1)
                 => /\ pushed.history = Append(Tail(history), GraphValue(this))
                    /\ pushed.historyIndex = maxHistorySize - 1
    /\ \A floor \in {UndoAll(this)} :
          /\ floor.historyIndex = 0
          /\ floor.history = history
          /\ historyIndex > 0 => GraphValue(floor) = Restored(history[1])

\* C2 witness: the history is full, its oldest snapshots have been evicted (the
\* first snapshot of a session is the empty canvas), and there is something
\* to undo
C2_Witness ==
    /\ Len(history) = maxHistorySize
    /\ historyIndex = maxHistorySize - 1
    /\ history[1].nodes # <<>>
    /\ last.name = "import" /\ last.pushes = 1

\* C3: right after any history push historyIndex = Len(history) - 1, the
\* snapshots that lay after the index having been discarded, so a redo()
\* issued directly after a mutating action changes nothing, also when the
\* action followed an undo.
C3_PushDiscardsRedoBranch ==
    /\ last.pushes > 0 => /\ historyIndex = Len(history) - 1
                          /\ redo(this) = this
    /\ \A pushed \in {saveState(this)} :
          /\ pushed.historyIndex = Len(pushed.history) - 1
          /\ redo(pushed) = pushed

\* C3 witness: a node has just been created after an undo, and the push
\* discarded the snapshot the undo had left after the index
C3_Witness ==
    /\ last.name = "createNode" /\ last.pushes = 1 /\ last.cut > 0
    /\ historyIndex = Len(history) - 1
    /\ Len(nodes) = 1

\* C4: the undo key at historyIndex = 0 and the redo key at historyIndex =
\* Len(history) - 1 leave nodes, connections, selection, history and
\* historyIndex as they were.
C4_BoundaryNoOp ==
    [][(\/ last'.name = "undo" /\ historyIndex = 0
        \/ last'.name = "redo" /\ historyIndex = Len(history) - 1)
           => UNCHANGED <<heap, nodes, connections, selectedNodes, history, historyIndex,
                          store>>]_vars

\* C4 witness: the undo key was pressed with a node selected and nothing to
\* undo, and the selection is still there
C4_Witness ==
    /\ last.name = "undo"
    /\ historyIndex = 0
    /\ Len(selectedNodes) = 1
    /\ heap[selectedNodes[1]].isSelected

\* C5: every event that changes what is placed on the canvas (undo, redo and
\* reload apart) pushes at least one snapshot, and the first snapshot it pushes
\* is the graph as it was before the event.
C5_SnapshotBeforeChange ==
    [][(/\ last'.name \notin {"undo", "redo", "reload"}
        /\ Placed(this)' # Placed(this))
           => /\ last'.pushes >= 1
              /\ history'[historyIndex' + 2 - last'.pushes] = GraphValue(this)]_vars

\* C6: a press on a node that starts a drag or a resize, followed by any
\* number of move events and a release, pushes exactly one history snapshot.
C6_GesturePushesOnce ==
    AtRest =>
        \A p \in Points, q \in Points :
            \A pressed \in {onMouseDown(Start("gesture"), p[1], p[2], 0, FALSE)} :
                (pressed.isResizing \/ pressed.dragTarget.kind \in {"node", "selectedNodes"})
                    => /\ onMouseUp(onMouseMove(pressed, q[1], q[2]),
                                    q[1], q[2], FALSE).last.pushes = 1
                       /\ onMouseUp(onMouseMove(onMouseMove(pressed, q[1], q[2]),
                                                p[1], p[2]),
                                    p[1], p[2], FALSE).last.pushes = 1

\* C7: selectedNodes holds only nodes of nodes, each once, and a node's
\* isSelected flag is true exactly when the node is in selectedNodes.
C7_SelectionConsistent ==
    /\ Range(selectedNodes) \subseteq Range(nodes)
    /\ \A i, j \in DOMAIN selectedNodes : selectedNodes[i] = selectedNodes[j] => i = j
    /\ \A o \in Range(nodes) : heap[o].isSelected <=> o \in Range(selectedNodes)

\* C8: the Delete key with a selection removes exactly the nodes that are in
\* selectedNodes and exactly the connections with an endpoint among them, and
\* leaves every other node and connection as placed.
C8_DeleteExactlySelected ==
    [][(last'.name = "delete" /\ last'.pushes = 1)
           => LET keptNodes == SeqFilterIdx(nodes,
                                   {i \in DOMAIN nodes : nodes[i] \notin Range(selectedNodes)},
                                   1)
                  goneIds == {heap[o].id : o \in Range(selectedNodes) \cap Range(nodes)}
                  keptConns == SeqFilterIdx(connections,
                                   {i \in DOMAIN connections :
                                       /\ connections[i].from \notin goneIds
                                       /\ connections[i].to \notin goneIds}, 1)
              IN  Placed(this)' =
                      Placed([this EXCEPT !.nodes = keptNodes, !.connections = keptConns])]_vars

\* C9: for two nodes A and B not yet connected, createConnection(A, B)
\* followed by createConnection(A, B) or createConnection(B, A) leaves exactly
\* one connection between A and B, the second call changing nothing but the
\* record of the call.
C9_ConnectTwiceOneEdge ==
    \A a \in Range(nodes), b \in Range(nodes) :
        (heap[a].id # heap[b].id /\ Between(this, heap[a].id, heap[b].id) = {})
            => \A once \in {createConnection(this, a, b)} :
                  \A twice \in {createConnection(once, a, b), createConnection(once, b, a)} :
                      /\ Cardinality(Between(once, heap[a].id, heap[b].id)) = 1
                      /\ Cardinality(Between(twice, heap[a].id, heap[b].id)) = 1
                      /\ twice.connections = once.connections
                      /\ twice.history = once.history

\* C9 witness: a connect gesture has just been released over a node already
\* connected to the node it started from, and there is still one connection
\* between the two
C9_Witness ==
    /\ last.name = "mouseUp"
    /\ last.conn # <<0, 0>>
    /\ last.pushes = 0
    /\ Cardinality(Between(this, last.conn[1], last.conn[2])) = 1

\* C10: both endpoints of every connection are ids of nodes in nodes.
C10_NoDanglingConnection ==
    \A i \in DOMAIN connections :
        /\ \E o \in Range(nodes) : heap[o].id = connections[i].from
        /\ \E o \in Range(nodes) : heap[o].id = connections[i].to

\* ------------------------------------------------------------------------
\* A session of imports and pointer gestures: a file is imported up to
\* MaxImports times at the start; the pointer, the undo and redo keys and the
\* export followed by an import of the exported file come within MaxSteps
\* ------------------------------------------------------------------------
\* imports of one session
MaxImports == 3

ConnectImport ==
    /\ AtRest
    /\ last.name \in {"init", "import"}
    /\ Len(history) <= MaxImports
    /\ Done(loadCanvasData(Start("import"), HistoryFile))
    /\ UNCHANGED steps

\* the user exports the canvas and imports the exported file
ConnectReimport ==
    /\ Tick /\ AtRest
    /\ Done(loadCanvasData(Start("reimport"), exportJSON(this)))

NextConnect ==
    \/ ConnectImport
    \/ ConnectReimport
    \/ \E p \in Points, c \in BOOLEAN : MouseDown(p, 0, c)
    \/ \E p \in Points : MouseMove(p)
    \/ \E p \in Points, c \in BOOLEAN : MouseUp(p, 0, c)
    \/ KeyUndo
    \/ KeyRedo

SpecConnect == Init /\ [][NextConnect]_vars

\* C11: no connection has the same node id at both ends.
C11_NoSelfLoop ==
    \A i \in DOMAIN connections : connections[i].from # connections[i].to

\* ------------------------------------------------------------------------
\* A session of resize gestures on a new node and on an imported one
\* ------------------------------------------------------------------------
\* pointer positions on the corners and the edges of the new node (400, 300,
\* 400 x 50) and two positions off it; all even, so that halving is exact
ResizePoints ==
    {<<400, 300>>, <<600, 300>>, <<800, 300>>, <<400, 326>>, <<800, 326>>,
     <<400, 350>>, <<600, 350>>, <<800, 350>>, <<600, 306>>, <<1000, 200>>}

\* a file with one node 50 wide, saved at zoom 2
ResizeFile ==
    [wellFormed |-> TRUE,
     nodes |-> <<[ImportNode(1, 200, 150, FALSE) EXCEPT !.width = 50]>>,
     connections |-> <<>>,
     hasView |-> TRUE, offsetX |-> 0, offsetY |-> 0, scale |-> 2]

NextResize ==
    \/ AddNodeClick
    \/ ImportFile(ResizeFile)
    \/ \E p \in ResizePoints : MouseDown(p, 0, FALSE)
    \/ \E p \in ResizePoints : MouseMove(p)
    \/ \E p \in ResizePoints : MouseUp(p, 0, FALSE)

SpecResize == Init /\ [][NextResize]_vars

\* C12: after every move event of a resize gesture the node being resized is
\* at least 60 wide and 40 high.
C12_ResizeKeepsMinimum ==
    [][(last'.name = "mouseMove" /\ isResizing)
           => /\ heap'[resizeTarget].width >= 60
              /\ heap'[resizeTarget].height >= 40]_vars

\* C13: an import, a bulk delete and a history restore each end with nodes,
\* connections, selection and viewport either all as they were before, or all
\* updated: after an import the file's nodes unselected, the file's connections
\* that join them, no selection and the file's view; after a delete the nodes
\* and connections that do not involve a selected id, and no selection; after
\* an undo or redo the snapshot at the index, and no selection.
C13_AllOrNothing ==
    [][LET AsBefore ==
               /\ NodeValues(this)' = NodeValues(this)
               /\ connections' = connections
               /\ selectedNodes' = selectedNodes
               /\ <<offsetX, offsetY, scale>>' = <<offsetX, offsetY, scale>>
           Imported(data) ==
               LET ids == {data.nodes[i].id : i \in DOMAIN data.nodes}
               IN  /\ data.wellFormed
                   /\ NodeValues(this)' = Restored([nodes |-> data.nodes,
                                                   connections |-> <<>>]).nodes
                   /\ connections' =
                          SeqFilterIdx(data.connections,
                                       {i \in DOMAIN data.connections :
                                           /\ data.connections[i].from \in ids
                                           /\ data.connections[i].to \in ids}, 1)
                   /\ selectedNodes' = <<>>
                   /\ data.hasView =>
                          <<offsetX, offsetY, scale>>' = <<data.offsetX, data.offsetY, data.scale>>
                   /\ ~data.hasView =>
                          <<offsetX, offsetY, scale>>' = <<offsetX, offsetY, scale>>
           goneIds == {heap[o].id : o \in Range(selectedNodes)}
           Deleted ==
               /\ Unselected(GraphValue(this))' =
                      Unselected(
                          [nodes |-> SeqFilterIdx(NodeValues(this),
                                         {i \in DOMAIN nodes : heap[nodes[i]].id \notin goneIds}, 1),
                           connections |-> SeqFilterIdx(connections,
                                         {i \in DOMAIN connections :
                                             /\ connections[i].from \notin goneIds
                                             /\ connections[i].to \notin goneIds}, 1)])
               /\ \A o \in Range(nodes') : ~heap'[o].isSelected
               /\ selectedNodes' = <<>>
               /\ <<offsetX, offsetY, scale>>' = <<offsetX, offsetY, scale>>
           Shown ==
               /\ GraphValue(this)' = Restored(history'[historyIndex' + 1])
               /\ selectedNodes' = <<>>
               /\ <<offsetX, offsetY, scale>>' = <<offsetX, offsetY, scale>>
       IN  /\ last'.name = "import" => AsBefore \/ \E data \in ImportFiles : Imported(data)
           /\ last'.name = "delete" => AsBefore \/ Deleted
           /\ last'.name \in {"undo", "redo"} => AsBefore \/ Shown]_vars

\* C14: an import of a well-formed file leaves in nodes exactly the file's
\* records that have an id, with isSelected false, and in connections exactly
\* the file's connections whose two ends are ids of those records.
C14_ImportValidates ==
    [][(last'.name = "import" /\ last'.pushes = 1)
           => \E data \in ImportFiles :
                 LET valid == {i \in DOMAIN data.nodes : data.nodes[i].id # 0}
                     kept == SeqFilterIdx(data.nodes, valid, 1)
                     ids == {data.nodes[i].id : i \in valid}
                     resolved == {i \in DOMAIN data.connections :
                                     /\ data.connections[i].from \in ids
                                     /\ data.connections[i].to \in ids}
                 IN  /\ data.wellFormed
                     /\ NodeValues(this)' =
                            [i \in DOMAIN kept |-> [kept[i] EXCEPT !.isSelected = FALSE]]
                     /\ connections' = SeqFilterIdx(data.connections, resolved, 1)]_vars

\* C15: the canvas exported, the exported data imported (into the same canvas
\* or into a fresh one) and the canvas exported again gives the nodes and the
\* connections of the first export, selection flags apart.
C15_ExportImportExport ==
    AtRest =>
        \A file \in {exportJSON(this)} :
            \A target \in {Start("reimport"), init(Constructed(NoStore, apiKey))} :
                \A again \in {exportJSON(loadCanvasData(target, file))} :
                    Unselected([nodes |-> again.nodes, connections |-> again.connections])
                        = Unselected([nodes |-> file.nodes, connections |-> file.connections])

\* C15 witness: an exported canvas with a connection and a selected node has
\* just been imported, and the graph is the one that was exported
C15_Witness ==
    /\ last.name = "reimport" /\ last.pushes = 1
    /\ connections # <<>>
    /\ \E i \in DOMAIN history[historyIndex + 1].nodes :
          history[historyIndex + 1].nodes[i].isSelected
    /\ Unselected(GraphValue(this)) = Unselected(history[historyIndex + 1])

\* ------------------------------------------------------------------------
\* A session of generation: it starts with nodes being added and all selected;
\* the Generate button, the completions of the models, the select-all, Delete
\* and undo keys come after, within MaxSteps
\* ------------------------------------------------------------------------
GenerationAddNode ==
    /\ steps = 0
    /\ AtRest
    /\ Len(nodes) < MaxNodes
    /\ Done(CreateNodeDefault(Start("createNode")))
    /\ UNCHANGED steps

GenerationSelectAll ==
    /\ steps = 0
    /\ Done(onKeyDown(Start("selectAll"), "a", TRUE, FALSE))
    /\ UNCHANGED steps

NextGeneration ==
    \/ GenerationAddNode
    \/ GenerationSelectAll
    \/ GenerateClick
    \/ \E m \in 1..NumModels, ok \in BOOLEAN : ModelSettles(m, ok)
    \/ KeySelectAll
    \/ KeyDelete
    \/ KeyUndo
    \/ KeyRedo

SpecGeneration == Init /\ [][NextGeneration]_vars

\* C16: a click on Generate while isGeneratingAI is true changes no node, no
\* connection, no history entry and nothing of the batch in flight; a batch in
\* flight always has isGeneratingAI true, and a completion never starts or
\* extends a batch.
C16_GenerationNotReentrant ==
    [][/\ (last'.name = "generateAI" /\ isGeneratingAI)
              => UNCHANGED <<heap, nodes, connections, selectedNodes, history,
                             historyIndex, store, gen, isGeneratingAI>>
       /\ gen.active => isGeneratingAI
       /\ last'.name = "modelComplete"
              => \/ gen' = NoGen
                 \/ /\ gen'.source = gen.source
                    /\ gen'.pending \subseteq gen.pending]_vars

\* C16 witness: Generate was clicked with a key set and one node selected, and
\* was turned down because a batch is in flight
C16_Witness ==
    /\ last.name = "generateAI" /\ last.pushes = 0
    /\ apiKey /\ Len(selectedNodes) = 1
    /\ gen.active /\ isGeneratingAI
    /\ gen.pending = 1..NumModels

\* C17: a completion that finds no node with the source's id in nodes leaves
\* nodes, connections, selection, history and the store as they were.
C17_DeletedSourceSkipped ==
    [][(last'.name = "modelComplete" /\ FindNodeById(this, heap[gen.source].id) = NullRef)
           => /\ nodes' = nodes /\ connections' = connections
              /\ NodeValues(this)' = NodeValues(this)
              /\ UNCHANGED <<selectedNodes, history, historyIndex, store>>]_vars

\* C17 witness: a model has completed with success after the source node was
\* deleted, and nothing was pushed
C17_Witness ==
    /\ last.name = "modelComplete" /\ last.ok /\ last.pushes = 0
    /\ gen.active
    /\ FindNodeById(this, heap[gen.source].id) = NullRef
    /\ \E i \in DOMAIN history :
          \E j \in DOMAIN history[i].nodes : history[i].nodes[j].id = heap[gen.source].id

C19_FailureChangesNothing ==
    [][(last'.name = "modelComplete" /\ ~last'.ok)
           => /\ nodes' = nodes /\ connections' = connections
              /\ NodeValues(this)' = NodeValues(this)
              /\ UNCHANGED <<selectedNodes, history, historyIndex, store>>
              /\ \/ gen' = NoGen /\ Cardinality(gen.pending) = 1
                 \/ /\ gen'.pending \subseteq gen.pending
                    /\ Cardinality(gen'.pending) = Cardinality(gen.pending) - 1]_vars

\* C19 witness: a model has failed while the source node is on the canvas and
\* another model is still awaited
C19_Witness ==
    /\ last.name = "modelComplete" /\ ~last.ok
    /\ gen.active /\ Cardinality(gen.pending) = NumModels - 1
    /\ FindNodeById(this, heap[gen.source].id) # NullRef

\* C20: every completion settles one awaited model; the batch stays in flight
\* with isGeneratingAI true while a model is awaited and ends, with
\* isGeneratingAI false, with the last one; a Generate click that starts no
\* batch leaves isGeneratingAI false; and with no batch in flight a Generate
\* click with a key and one selected node of the canvas starts a batch over
\* all the models.
C20_BatchJoinsAllModels ==
    [][/\ last'.name = "modelComplete"
              => /\ gen.active /\ gen.pending # {}
                 /\ Cardinality(gen.pending) > 1
                        => /\ gen'.active /\ isGeneratingAI'
                           /\ gen'.pending \subseteq gen.pending
                           /\ Cardinality(gen'.pending) = Cardinality(gen.pending) - 1
                 /\ Cardinality(gen.pending) = 1 => gen' = NoGen /\ ~isGeneratingAI'
       /\ (last'.name = "generateAI" /\ ~gen'.active) => ~isGeneratingAI'
       /\ ~gen.active => ~isGeneratingAI
       /\ (/\ AtRest /\ ~gen.active /\ apiKey /\ Len(selectedNodes) = 1
           /\ selectedNodes[1] \in Range(nodes))
              => \A started \in {generateAI(Start("generateAI"))} :
                     /\ started.gen.active /\ started.isGeneratingAI
                     /\ started.gen.pending = 1..NumModels]_vars

\* C20 witness: a batch has ended with nodes on the canvas, and a new batch
\* has just been accepted
C20_Witness ==
    /\ last.name = "generateAI" /\ last.pushes = 1
    /\ gen.active /\ gen.pending = 1..NumModels
    /\ \E o \in Range(nodes) : heap[o].generatedByModel # 0

\* ------------------------------------------------------------------------
\* Interaction while a generation batch is outstanding
\* ------------------------------------------------------------------------
\* C21: while a batch is outstanding, every pointer, key and edit event
\* (press, move, release, double click, edit commit, Delete, select-all, undo,
\* redo, space, wheel, zoom and reset-view buttons) leaves the state it would leave with no batch outstanding, the
\* batch itself untouched.
C21_GenerationDoesNotBlock ==
    gen.active =>
        LET Idle(s) == [s EXCEPT !.gen = NoGen, !.isGeneratingAI = FALSE]
            Busy(s) == [s EXCEPT !.gen = gen, !.isGeneratingAI = isGeneratingAI]
            SameEffect(handler(_)) == handler(this) = Busy(handler(Idle(this)))
            \* the same controller with its view written as fractions
            Fr(s) == [s EXCEPT !.offsetX = <<@, 1>>, !.offsetY = <<@, 1>>,
                               !.scale = <<@, 1>>]
            SameZoom(handler(_)) == handler(Fr(this)) = Busy(handler(Fr(Idle(this))))
        IN  /\ \A p \in Points, b \in Buttons, c \in BOOLEAN :
                   /\ SameEffect(LAMBDA s : onMouseDown(s, p[1], p[2], b, c))
                   /\ SameEffect(LAMBDA s : onMouseUp(s, p[1], p[2], c))
            /\ \A p \in Points :
                   /\ SameEffect(LAMBDA s : onMouseMove(s, p[1], p[2]))
                   /\ SameEffect(LAMBDA s : onDoubleClick(s, p[1], p[2]))
            /\ \A value \in EditTexts :
                   SameEffect(LAMBDA s : finishEditingNode(s, value))
            /\ \A key \in {"Delete", "Backspace", "a", "z", "y", " "},
                  c \in BOOLEAN, sh \in BOOLEAN :
                   SameEffect(LAMBDA s : onKeyDown(s, key, c, sh))
            /\ SameEffect(LAMBDA s : onKeyUp(s, " "))
            /\ \A p \in Points, e \in WheelEvents :
                   SameZoom(LAMBDA s : onWheel(s, p[1], p[2], e))
            /\ \A factor \in {<<6, 5>>, <<4, 5>>} : SameZoom(LAMBDA s : zoom(s, factor))
            /\ SameZoom(LAMBDA s : resetView(s))

\* C21 witness: a batch is outstanding while a node is selected and there is
\* a snapshot to undo to, so Delete and undo both have an effect
C21_Witness ==
    /\ gen.active /\ isGeneratingAI
    /\ historyIndex > 0 /\ Len(selectedNodes) > 0
    /\ undo(this) # this
    /\ deleteSelectedNodes(this) # this

\* ------------------------------------------------------------------------
\* A session of zooming: a file with a view is imported into the fresh canvas,
\* then the wheel, the trackpad and the view buttons are used. The view is
\* held as fractions.
\* ------------------------------------------------------------------------
\* wheel and view-button events explored
MaxZooms == 2

\* files that carry a view and no nodes: scales 2.5 and 0.125, from which two
\* zooms reach the limits, and 4
ViewFiles ==
    {[wellFormed |-> TRUE, nodes |-> <<>>, connections |-> <<>>, hasView |-> TRUE,
      offsetX |-> <<40, 1>>, offsetY |-> <<0, 1>>, scale |-> sc] :
        sc \in {<<5, 2>>, <<1, 8>>, <<4, 1>>}}

ZoomInit ==
    /\ steps = 0
    /\ Is([init(Constructed(NoStore, FALSE))
               EXCEPT !.offsetX = <<0, 1>>, !.offsetY = <<0, 1>>, !.scale = <<1, 1>>])

NextZoom ==
    \/ /\ last.name = "init"
       /\ \E data \in ViewFiles : Done(loadCanvasData(Start("import"), data))
       /\ UNCHANGED steps
    \/ /\ steps < MaxZooms /\ steps' = steps + 1
       /\ \E p \in Points, e \in WheelEvents : Done(onWheel(Start("wheel"), p[1], p[2], e))
    \/ /\ steps < MaxZooms /\ steps' = steps + 1
       /\ \E factor \in {<<6, 5>>, <<4, 5>>} : Done(zoom(Start("zoom"), factor))
    \/ /\ steps < MaxZooms /\ steps' = steps + 1
       /\ Done(resetView(Start("resetView")))

SpecZoom == ZoomInit /\ [][NextZoom]_vars

\* C22: the scale is at least 0.1 and at most 3.0 in every state.
C22_ScaleInRange ==
    10 * scale[1] >= scale[2] /\ scale[1] <= 3 * scale[2]

\* C23: for a wheel or pinch zoom at any pointer position and a button zoom
\* at the canvas centre, the world point under the anchor, (anchor - offset) /
\* scale, is the same after the zoom as before it, also when the scale is
\* clamped (exact arithmetic).
C23_AnchorFixed ==
    LET World(s, x, y) ==
            <<FracMul(FracAdd(<<x, 1>>, <<0 - s.offsetX[1], s.offsetX[2]>>),
                      <<s.scale[2], s.scale[1]>>),
              FracMul(FracAdd(<<y, 1>>, <<0 - s.offsetY[1], s.offsetY[2]>>),
                      <<s.scale[2], s.scale[1]>>)>>
        Zooms(e) == e.metaKey \/ e.ctrlKey \/ Abs(e.deltaY) >= 50
    IN  /\ \A p \in Points, e \in WheelEvents :
               Zooms(e) => World(onWheel(this, p[1], p[2], e), p[1], p[2])
                               = World(this, p[1], p[2])
        /\ \A factor \in {<<6, 5>>, <<4, 5>>} :
               World(zoom(this, factor), CanvasWidth \div 2, CanvasHeight \div 2)
                   = World(this, CanvasWidth \div 2, CanvasHeight \div 2)

\* C23 witness: a wheel zoom-in has been clamped at 3.0 (no wheel factor
\* reaches 3 exactly from the scales explored) and has moved the offset
C23_Witness ==
    /\ last.name = "wheel" /\ scale = <<3, 1>>
    /\ offsetX # <<40, 1>> /\ offsetX # <<0, 1>>

\* ------------------------------------------------------------------------
\* Hit testing
\* ------------------------------------------------------------------------
\* C24: at every canvas point the hit-test returns, among the nodes that
\* contain the point, the one created latest (ids are creation stamps,
\* Date.now() + Math.random()), and null when no node contains it.
C24_HitTestLatest ==
    \A x \in {0, 100, 400, 500, 600, 800, 900}, y \in {70, 100, 300, 320, 340} :
        LET containing == {o \in Range(nodes) : Contains(heap[o], x, y)}
            Latest(hit) ==
                IF containing = {} THEN hit = NullRef
                ELSE /\ hit \in containing
                     /\ \A o \in containing : heap[o].id <= heap[hit].id
        IN  Latest(getNodeAtPoint(this, x, y))

\* C24 witness: an undo has restored two nodes that cover the same point, and
\* the hit-test gives the second
C24_Witness ==
    /\ last.name = "undo" /\ historyIndex < Len(history) - 1 /\ Len(nodes) = 2
    /\ \E x \in {500, 600}, y \in {320} :
          /\ \A o \in Range(nodes) : Contains(heap[o], x, y)
          /\ getNodeAtPoint(this, x, y) = nodes[2]

\* ------------------------------------------------------------------------
\* Persistence
\* ------------------------------------------------------------------------
\* C25: when an event has committed a change (a node created, a connection
\* made, a deletion, an edit committed, a drag, resize or pan released, a
\* zoom, a view reset, an undo or redo that restored a snapshot, an import
\* that replaced the canvas), the store holds the nodes, the connections, the
\* offset and the scale of the controller.
C25_StoreFollowsCommits ==
    [][LET committed ==
               \/ last'.name \in {"createNode", "finishEdit", "zoom", "resetView", "wheel"}
               \/ /\ last'.name \in {"dblclick", "modelComplete", "delete"}
                  /\ Len(nodes') # Len(nodes)
               \/ /\ last'.name = "mouseUp"
                  /\ \/ ~isSelecting /\ ~isConnecting /\ (isDragging \/ isResizing)
                     \/ Len(connections') # Len(connections)
               \/ /\ last'.name \in {"undo", "redo"}
                  /\ historyIndex' # historyIndex
               \/ /\ last'.name = "import"
                  /\ last'.pushes > 0
       IN  committed =>
               store' = [present |-> TRUE, nodes |-> NodeValues(this)',
                         connections |-> connections', offsetX |-> offsetX',
                         offsetY |-> offsetY', scale |-> scale']]_vars

\* ------------------------------------------------------------------------
\* Text editing
\* ------------------------------------------------------------------------
\* C26: while a node is being edited, a Delete, Backspace, a, z or y key
\* event, with or without Ctrl/Cmd and Shift, leaves the controller as it
\* was: nodes, connections, selection, history and historyIndex included.
C26_ShortcutsSuspended ==
    editingNode # NullRef =>
        \A key \in {"Delete", "Backspace", "a", "z", "y"}, c \in BOOLEAN, sh \in BOOLEAN :
            onKeyDown(this, key, c, sh) = this

\* C26 witness: the Delete key was pressed while a selected node was being
\* edited and a snapshot could be undone
C26_Witness ==
    /\ editingNode # NullRef /\ last.name = "delete"
    /\ editingNode \in Range(selectedNodes) /\ historyIndex > 0

\* ------------------------------------------------------------------------
\* A session of pointer gestures and edits on an imported canvas of two
\* separate nodes with no connection: the first (400, 300, 400 x 100) was
\* resized by hand before it was exported, the second (0, 70, 400 x 50) was
\* not. The pointer is on the body of the first, on its right border, on the
\* body of the second, or on empty canvas; Ctrl+A selects both nodes.
\* ------------------------------------------------------------------------
NextGesture ==
    \/ /\ last.name = "init"
       /\ Done(loadCanvasData(Start("import"),
               [HistoryFile EXCEPT !.connections = <<>>,
                                   !.nodes[1].manuallyResized = TRUE,
                                   !.nodes[1].height = 100]))
       /\ UNCHANGED steps
    \/ \E p \in {<<500, 326>>, <<800, 350>>, <<100, 100>>, <<900, 200>>}, c \in BOOLEAN :
          \/ MouseDown(p, 0, c)
          \/ MouseMove(p)
          \/ MouseUp(p, 0, c)
          \/ DoubleClick(p)
    \/ \E value \in EditTexts : FinishEdit(value)
    \/ KeySelectAll

SpecGesture == Init /\ [][NextGesture]_vars

\* C27: an event changes the height of a node whose manual-resize flag is set
\* only when it is a move of a resize gesture on that node; in particular a
\* committed edit and the redraw after any event leave it. A committed edit
\* of a node without the flag sets its height to the height the layout of
\* the new text needs at the node's width (at least 40).
C27_ManualHeightKept ==
    [][/\ \A o \in DOMAIN heap \cap DOMAIN heap' :
              (heap[o].manuallyResized /\ ~(isResizing /\ resizeTarget = o))
                  => heap'[o].height = heap[o].height
       /\ \A o \in {editingNode} \ {NullRef} :
              (editInput /\ ~editInput' /\ ~heap[o].manuallyResized)
                  => heap'[o].height =
                         Max(40, calculateMarkdownHeight(heap'[o].text, heap[o].width, Margins))
      ]_vars

\* C27 witness: an edit of the hand-resized node has been committed with a
\* text whose layout needs another height than the node has
C27_Witness ==
    /\ last.name \in {"finishEdit", "mouseDown"} /\ last.pushes = 1
    /\ \E o \in Range(nodes) :
          /\ heap[o].manuallyResized /\ heap[o].text \in EditTexts
          /\ heap[o].height
                 # Max(40, calculateMarkdownHeight(heap[o].text, heap[o].width, Margins))

\* C28: with no button held and no edit open, whatever is selected, a press
\* of the left button with Ctrl/Cmd held on the body of a node A followed by
\* a release over another node B, A and B not connected, leaves exactly one
\* connection between A and B and no gesture in progress.
C28_CtrlDragConnects ==
    (AtRest /\ ~isDragging /\ ~isSelecting /\ ~isConnecting /\ ~isResizing) =>
        \A pa \in {<<500, 326>>, <<100, 100>>}, pb \in {<<500, 326>>, <<100, 100>>} :
            LET At(p) == getNodeAtPoint(this, ToCanvas(p[1], offsetX, scale),
                                        ToCanvas(p[2], offsetY, scale))
                Idle(r) == /\ ~r.isConnecting /\ r.connectionStart = NullRef
                           /\ ~r.isDragging /\ ~r.isResizing /\ ~r.isSelecting
                Connected(r, a, b) ==
                    Cardinality(Between(r, heap[a].id, heap[b].id)) = 1 /\ Idle(r)
                OnBody(a, p) ==
                    getBorderResizeHandle(heap[a], ToCanvas(p[1], offsetX, scale),
                                          ToCanvas(p[2], offsetY, scale)) = "none"
                Gesture(a, b) ==
                    (/\ a # NullRef /\ b # NullRef /\ heap[a].id # heap[b].id
                     /\ OnBody(a, pa) /\ Between(this, heap[a].id, heap[b].id) = {})
                        => Connected(onMouseUp(onMouseDown(this, pa[1], pa[2], 0, TRUE),
                                               pb[1], pb[2], TRUE), a, b)
            IN  Gesture(At(pa), At(pb))

LayoutTexts ==
    {<<"a", "b", " ", "c", "d">>,
     <<"*", "*", "a", "b", " ", "c", "d", "*", "*">>,
     <<Backtick, "a", "b", "c", "d", Backtick>>,
     <<"a", "b", " ", "c", "d", " ", "e", "f">>,
     <<"-", " ", "*", "*", "a", " ", "b", "*", "*">>,
     <<"#", " ", "a", "b", "\n", "\n", "c", "d">>,
     <<"*", "*", "a", "*", "b", "*", "c", "*", "*">>,
     <<"a", "b", "c", "d", "e", "f", "g", " ", "h", "i", " ", " ", "j", "k">>}

NextLayout ==
    \/ /\ last.name = "init"
       /\ \E w \in {60, 100, 400}, resized \in BOOLEAN :
              Done(loadCanvasData(Start("import"),
                      [HistoryFile EXCEPT !.connections = <<>>,
                                          !.nodes = <<[ImportNode(1, 400, 300, FALSE)
                                                          EXCEPT !.width = w,
                                                                 !.manuallyResized = resized,
                                                                 !.height = IF resized THEN 58
                                                                            ELSE 50]>>]))
       /\ UNCHANGED steps
    \/ \E p \in {<<430, 326>>, <<100, 100>>} : DoubleClick(p)
    \/ EditTimerFires
    \/ \E value \in LayoutTexts : FinishEdit(value)

SpecLayout == Init /\ [][NextLayout]_vars

\* C30: for every node whose height is the height calculateMarkdownHeight
\* gives for its text and width, the renderer lays every block out in the
\* same lines the height calculation counted, the calculated height is the
\* top margin plus the laid-out line heights and spacings plus the bottom
\* margin (at least 40), and every laid-out line is drawn.
C30_RenderMatchesHeight ==
    \A o \in Range(nodes) :
        LET Counted(item) ==
                wrapTextForMarkdown(FullText(item),
                                    heap[o].width - Margins.left - Margins.right, item)
            Same(parsed, rendered) ==
                /\ \A k \in DOMAIN parsed :
                       parsed[k].type # "spacing" =>
                           /\ rendered[k].laid = Counted(parsed[k])
                           /\ rendered[k].drawn = Len(rendered[k].laid)
                /\ heap[o].height =
                       Max(40, Margins.top + Margins.bottom
                                   + SumSeq([k \in DOMAIN parsed |->
                                               IF parsed[k].type = "spacing"
                                               THEN parsed[k].fontSize
                                               ELSE Len(rendered[k].laid)
                                                        * LineHeight(parsed[k])]))
        IN  heap[o].height = calculateMarkdownHeight(heap[o].text, heap[o].width, Margins)
                => Same(parseMarkdown(heap[o].text),
                        renderMarkdownToCanvas(heap[o].text, heap[o].width,
                                               heap[o].height, Margins))

\* C31: a text block whose content is "**a*b*c**" is parsed into exactly one
\* inline segment, of type bold, with the literal text "a*b*c".
C31_BoldOverItalic ==
    \A o \in Range(nodes) :
        heap[o].text = <<"*", "*", "a", "*", "b", "*", "c", "*", "*">>
            => parseMarkdown(heap[o].text)
                   = <<Block("text", <<[text |-> <<"a", "*", "b", "*", "c">>, type |-> "bold"]>>,
                             14, TRUE)>>

C33_DrawnIsPrefix ==
    \A o \in Range(nodes) :
        LET Clipped(parsed, rendered) ==
                LET Advance(k) == IF parsed[k].type = "spacing" THEN parsed[k].fontSize
                                  ELSE rendered[k].drawn * LineHeight(parsed[k])
                    Bottom(k) == Margins.top + SumSeq([j \in 1..k |-> Advance(j)])
                IN  /\ \A k \in DOMAIN parsed :
                           rendered[k].drawn > 0
                               => Bottom(k) <= heap[o].height - Margins.bottom
                    /\ \A j \in DOMAIN parsed, k \in DOMAIN parsed :
                           (j < k /\ rendered[j].drawn < Len(rendered[j].laid))
                               => rendered[k].drawn = 0
        IN  Clipped(parseMarkdown(heap[o].text),
                    renderMarkdownToCanvas(heap[o].text, heap[o].width, heap[o].height,
                                           Margins))

\* C34: from any reachable state, after k >= 1 mutating actions (create node,
\* create connection, bulk delete, edit commit) a single undo() leaves the
\* nodes and connections the user placed equal to what they were just before
\* the k-th of those actions.
C34_UndoRevertsOne ==
    \A k \in 1..MaxMutations :
        \A before \in MutatedN({this}, k - 1) :
            \A after \in Mutations(before) :
                Placed(undo(after)) = Placed(before)

\* C35: with no button held and no edit open, a left press at p that starts a
\* resize, followed by a move to q and a move to r, moves the dragged edge or
\* corner first by (q - p) / scale and then by (r - q) / scale: each move
\* resizes by the pointer displacement since the previous pointer position
\* of the same gesture.
C35_ResizeFollowsPointer ==
    AtRest =>
        \A p \in ResizePoints, q \in ResizePoints, r \in ResizePoints :
            LET Box(n) == <<n.x, n.y, n.width, n.height>>
                By(n, handle, from, to) ==
                    Box(ResizeNode(n, handle, (to[1] - from[1]) \div scale,
                                   (to[2] - from[2]) \div scale))
                Second(first, o) ==
                    Box(onMouseMove(first, r[1], r[2]).heap[o])
                        = By(first.heap[o], first.resizeHandle, q, r)
                First(pressed, o) ==
                    /\ Box(onMouseMove(pressed, q[1], q[2]).heap[o])
                           = By(pressed.heap[o], pressed.resizeHandle, p, q)
                    /\ Second(onMouseMove(pressed, q[1], q[2]), o)
                Gesture(pressed) ==
                    pressed.isResizing => First(pressed, pressed.resizeTarget)
            IN  Gesture(onMouseDown(this, p[1], p[2], 0, FALSE))

\* C36: after every event at most one of the gesture modes panning, node
\* dragging, resizing, connecting and marquee selecting is on, and after
\* every release of a pointer button none is: the five flags are false and
\* dragTarget, resizeTarget and connectionStart are null.
C36_OneGestureThenIdle ==
    [][LET Modes ==
               {m \in {"pan", "drag", "resize", "connect", "select"} :
                   \/ m = "pan" /\ isPanning'
                   \/ m = "drag" /\ isDragging' /\ ~isPanning'
                   \/ m = "resize" /\ isResizing'
                   \/ m = "connect" /\ isConnecting'
                   \/ m = "select" /\ isSelecting'}
       IN  /\ Cardinality(Modes) <= 1
           /\ last'.name = "mouseUp" =>
                  /\ Modes = {} /\ ~isDragging'
                  /\ dragTarget' = NoTarget /\ resizeTarget' = NullRef
                  /\ connectionStart' = NullRef
      ]_vars

\* C37: a node that is being edited is one of the nodes of the canvas.
C37_EditedNodeExists ==
    editingNode # NullRef => editingNode \in Range(nodes)

\* C38: while a node is being edited, an unshifted Enter with any typed text,
\* whether or not the removal of the textarea raises blur, pushes exactly one
\* history snapshot, leaves the typed text in the node and ends the edit.
C38_EditCommitsOnce ==
    Editing =>
        \A value \in EditTexts, blurOnRemove \in BOOLEAN :
            LET Once(r) ==
                    /\ r.last.pushes = last.pushes + 1
                    /\ Len(r.history) <= Len(history) + 1
                    /\ r.heap[editingNode].text = value
                    /\ r.editingNode = NullRef /\ ~r.editInput
            IN  Once(finishEditingNodeOnEnter(this, value, blurOnRemove))

\* C39: a click on Generate that is refused (no key, not exactly one node
\* selected, a batch already in flight), or that is accepted and followed by
\* the failure of every model, leaves history and historyIndex as they were
\* before the click.
C39_FailedRequestKeepsHistory ==
    LET RECURSIVE AllFail(_, _)
        AllFail(s, model) ==
            IF model > NumModels THEN s
            ELSE AllFail(modelSettles(s, model, FALSE), model + 1)
        Kept(r) == r.history = history /\ r.historyIndex = historyIndex
        Request(clicked) ==
            IF gen.active \/ ~clicked.gen.active THEN Kept(clicked)
            ELSE Kept(AllFail(clicked, 1))
    IN  Request(generateAI(this))

====
